---- MODULE Spec2Model ----
(***************************************************************************)
(* The intent classification and coordination dispatch engine of           *)
(* part3_complete_for_colab.py: RouterAgent.process_query, the two         *)
(* specialist agents it calls (CustomerDataAgent, SupportAgent) and the    *)
(* MCPServer store operations behind them.                                 *)
(*                                                                         *)
(* Python strings are TLA+ strings; `k in s`, str.lower and the two        *)
(* regular expressions are computed character by character.  A Python      *)
(* dict is a TLA+ record/function, `None` of an Optional[int] is the empty *)
(* tuple and an int n is <<n>>.  The non-ASCII glyphs of the messages are   *)
(* written in ASCII: [ok] [x] -> <- [!] and *.  Wall-clock timestamps of   *)
(* log entries and rows are left out; a ticket's created_at is a logical   *)
(* time.  int() is CPython's: it converts at most IntMaxStrDigits digits   *)
(* and raises ValueError on a longer string.  An sqlite3 call may fail: a  *)
(* store call works, raises inside the tool's try block, or raises in      *)
(* _get_connection; rows with equal ORDER BY keys come in any order.       *)
(***************************************************************************)
EXTENDS Integers, Sequences, FiniteSets, TLC

(***************************************************************************)
(* Characters and strings                                                  *)
(***************************************************************************)
\* str.lower() and str.upper() of one ASCII letter
LowerOf ==
    ("A" :> "a") @@ ("B" :> "b") @@ ("C" :> "c") @@ ("D" :> "d") @@ ("E" :> "e") @@ ("F" :> "f") @@
    ("G" :> "g") @@ ("H" :> "h") @@ ("I" :> "i") @@ ("J" :> "j") @@ ("K" :> "k") @@ ("L" :> "l") @@
    ("M" :> "m") @@ ("N" :> "n") @@ ("O" :> "o") @@ ("P" :> "p") @@ ("Q" :> "q") @@ ("R" :> "r") @@
    ("S" :> "s") @@ ("T" :> "t") @@ ("U" :> "u") @@ ("V" :> "v") @@ ("W" :> "w") @@ ("X" :> "x") @@
    ("Y" :> "y") @@ ("Z" :> "z")
UpperOf ==
    ("a" :> "A") @@ ("b" :> "B") @@ ("c" :> "C") @@ ("d" :> "D") @@ ("e" :> "E") @@ ("f" :> "F") @@
    ("g" :> "G") @@ ("h" :> "H") @@ ("i" :> "I") @@ ("j" :> "J") @@ ("k" :> "K") @@ ("l" :> "L") @@
    ("m" :> "M") @@ ("n" :> "N") @@ ("o" :> "O") @@ ("p" :> "P") @@ ("q" :> "Q") @@ ("r" :> "R") @@
    ("s" :> "S") @@ ("t" :> "T") @@ ("u" :> "U") @@ ("v" :> "V") @@ ("w" :> "W") @@ ("x" :> "X") @@
    ("y" :> "Y") @@ ("z" :> "Z")
\* int() of one decimal digit
DigitValue ==
    ("0" :> 0) @@ ("1" :> 1) @@ ("2" :> 2) @@ ("3" :> 3) @@ ("4" :> 4) @@ ("5" :> 5) @@
    ("6" :> 6) @@ ("7" :> 7) @@ ("8" :> 8) @@ ("9" :> 9)

CharAt(s, i) == SubSeq(s, i, i)

LowerChar(c) == IF c \in DOMAIN LowerOf THEN LowerOf[c] ELSE c
UpperChar(c) == IF c \in DOMAIN UpperOf THEN UpperOf[c] ELSE c

\* s[lo..hi] with every character lower-cased, by halves
RECURSIVE LowerRange(_, _, _)
LowerRange(s, lo, hi) ==
    IF lo > hi THEN ""
    ELSE IF lo = hi THEN LowerChar(CharAt(s, lo))
    ELSE LowerRange(s, lo, (lo + hi) \div 2) \o LowerRange(s, (lo + hi) \div 2 + 1, hi)

\* str.lower()
Lower(s) == LowerRange(s, 1, Len(s))

RECURSIVE UpperRange(_, _, _)
UpperRange(s, lo, hi) ==
    IF lo > hi THEN ""
    ELSE IF lo = hi THEN UpperChar(CharAt(s, lo))
    ELSE UpperRange(s, lo, (lo + hi) \div 2) \o UpperRange(s, (lo + hi) \div 2 + 1, hi)

\* str.upper()
Upper(s) == UpperRange(s, 1, Len(s))

\* whether s holds the literal k at position i
HasAt(s, i, k) == i + Len(k) - 1 <= Len(s) /\ SubSeq(s, i, i + Len(k) - 1) = k

\* Python `k in s` for strings
Contains(s, k) == \E i \in 1..(Len(s) - Len(k) + 1) : SubSeq(s, i, i + Len(k) - 1) = k

\* the classes \d and \s of the re module, on ASCII text
Digits == DOMAIN DigitValue
Spaces == {" ", "\t", "\n"}
IsDigit(c) == c \in Digits
\* \w of the re module, on ASCII text
WordChars == DOMAIN LowerOf \cup DOMAIN UpperOf \cup Digits \cup {"_"}
IsWordChar(c) == c \in WordChars
\* the class [\w\.-]
MailChars == WordChars \cup {".", "-"}

\* first index >= i whose character is not of the class (Len(s)+1 when
\* none): the end of a greedy run
RunEnd(class, s, i) ==
    IF i > Len(s) THEN i
    ELSE IF \A j \in i..Len(s) : CharAt(s, j) \in class THEN Len(s) + 1
    ELSE CHOOSE j \in i..Len(s) :
            /\ CharAt(s, j) \notin class
            /\ \A k \in i..(j - 1) : CharAt(s, k) \in class

\* the value of the decimal digits s[i..j], given the value acc of those before
RECURSIVE IntFrom(_, _, _, _)
IntFrom(s, i, j, acc) ==
    IF i > j THEN acc ELSE IntFrom(s, i + 1, j, 10 * acc + DigitValue[CharAt(s, i)])

(***************************************************************************)
(* Python values                                                           *)
(***************************************************************************)
\* Optional[...]: None is the empty tuple, a value x is <<x>>
None == <<>>
Some(x) == <<x>>
\* the empty dict {}
EmptyDict == [k \in {} |-> 0]
\* dict.get(key, default)
Get(d, key, default) == IF key \in DOMAIN d THEN d[key] ELSE default
\* `if customer_id` on an Optional[int] with no test at all
MutTruthyAlways(optInt) == TRUE

\* truthiness of an Optional[int]: None and 0 are falsy
Truthy(optInt) == optInt # None /\ optInt[1] # 0
\* str() of an Optional[int]
PyStr(optInt) == IF optInt = None THEN "None" ELSE ToString(optInt[1])

\* any(k in s for k in kws)
AnyIn(s, kws) == \E i \in 1..Len(kws) : Contains(s, kws[i])
\* index of the first keyword of kws[i..] that s contains, 0 when none
RECURSIVE FirstFrom(_, _, _)
FirstFrom(s, kws, i) ==
    IF i > Len(kws) THEN 0
    ELSE IF Contains(s, kws[i]) THEN i
    ELSE FirstFrom(s, kws, i + 1)

\* `for keyword in kws: if keyword in s`: the first keyword that s contains
FirstIn(s, kws) == FirstFrom(s, kws, 1)

\* the outcome of a Python call: a returned value or a raised exception
Returned(v) == [raised |-> FALSE, value |-> v]
Raised(e) == [raised |-> TRUE, error |-> e]

\* the longest digit string int() converts (sys.get_int_max_str_digits());
\* a longer one raises ValueError
IntMaxStrDigits == 4300

\* int(s[i..j]) of a run of decimal digits
PyInt(s, i, j) ==
    IF j - i + 1 > IntMaxStrDigits
    THEN Raised("Exceeds the limit (" \o ToString(IntMaxStrDigits)
                \o " digits) for integer string conversion: value has "
                \o ToString(j - i + 1)
                \o " digits; use sys.set_int_max_str_digits() to increase the limit")
    ELSE Returned(IntFrom(s, i, j, 0))

(***************************************************************************)
(* RouterAgent._analyze_intent                                             *)
(***************************************************************************)
Intents == {"simple_data_query", "escalation", "multi_intent",
            "complex_analysis", "coordinated_support", "general"}

SimplePhrases == <<"get customer", "customer information", "show customer">>
SimpleExcluded == <<"help", "support", "upgrade", "issue">>
EscalationWords == <<"charged twice", "refund immediately", "urgent", "emergency">>
ActionWords == <<"update", "show", "get", "create", "list">>
ComplexPhrases == <<"all customers", "high-priority tickets", "open tickets",
                    "active customers">>
SupportWords == <<"help", "support", "upgrade", "cancel", "issue">>

\* sum(1 for action in actions if action in query_lower)
action_count(query_lower) ==
    Cardinality({i \in 1..Len(ActionWords) : Contains(query_lower, ActionWords[i])})

\* the rule ladder of _analyze_intent without the exclusion of rule 1
MutLadderNoExclusion(query_lower) ==
    IF AnyIn(query_lower, SimplePhrases) THEN "simple_data_query"
    ELSE IF AnyIn(query_lower, EscalationWords) THEN "escalation"
    ELSE IF action_count(query_lower) >= 2 THEN "multi_intent"
    ELSE IF AnyIn(query_lower, ComplexPhrases) THEN "complex_analysis"
    ELSE IF AnyIn(query_lower, SupportWords) THEN "coordinated_support"
    ELSE "general"

\* the rule ladder of _analyze_intent over the lower-cased query
IntentLadder(query_lower) ==
    IF /\ AnyIn(query_lower, SimplePhrases)
       /\ ~AnyIn(query_lower, SimpleExcluded)
    THEN "simple_data_query"
    ELSE IF AnyIn(query_lower, EscalationWords) THEN "escalation"
    ELSE IF action_count(query_lower) >= 2 THEN "multi_intent"
    ELSE IF AnyIn(query_lower, ComplexPhrases) THEN "complex_analysis"
    ELSE IF AnyIn(query_lower, SupportWords) THEN "coordinated_support"
    ELSE "general"

\* _analyze_intent: query_lower = query.lower(), then the ladder
analyze_intent(query) ==
    CHOOSE intent \in {IntentLadder(query_lower) : query_lower \in {Lower(query)}} : TRUE

(***************************************************************************)
(* RouterAgent._extract_customer_id                                        *)
(***************************************************************************)
\* the prefix with the alternative `id` left out
MutIdPrefixCustomerOnly(s, i) ==
    IF HasAt(s, i, "customer") THEN RunEnd(Spaces, s, i + 8) ELSE 0

\* (?:id|customer)\s* at position i: the position after it, 0 when neither
\* alternative is there
IdPrefixEnd(s, i) ==
    IF HasAt(s, i, "id") THEN RunEnd(Spaces, s, i + 2)
    ELSE IF HasAt(s, i, "customer") THEN RunEnd(Spaces, s, i + 8)
    ELSE 0

\* whether (?:id|customer)\s*(\d+) matches at position i
IdMatchAt(s, i) ==
    \E d \in {IdPrefixEnd(s, i)} : d # 0 /\ d <= Len(s) /\ IsDigit(CharAt(s, d))

\* the position of the leftmost match of the pattern in s, 0 when none
IdSearchStart(s) ==
    IF \E i \in 1..Len(s) : IdMatchAt(s, i)
    THEN CHOOSE i \in 1..Len(s) : IdMatchAt(s, i) /\ \A k \in 1..(i - 1) : ~IdMatchAt(s, k)
    ELSE 0

\* int(match.group(1)) for the match at position i: the outcome, with Some(n)
\* for an int
IdGroup(s, i) ==
    CHOOSE r \in {IF n.raised THEN n ELSE Returned(Some(n.value)) :
                    n \in {PyInt(s, d, RunEnd(Digits, s, d) - 1) :
                            d \in {IdPrefixEnd(s, i)}}} : TRUE

\* match = re.search(r'(?:id|customer)\s*(\d+)', s); int(match.group(1)) if
\* match else None: the outcome of the conversion, None returned when there is
\* no match
IdSearch(s) ==
    CHOOSE r \in {IF i = 0 THEN Returned(None) ELSE IdGroup(s, i) :
                    i \in {IdSearchStart(s)}} : TRUE

\* _extract_customer_id: the outcome, returning None or Some(id); context is
\* None, or Some(dict)
extract_customer_id(query, context) ==
    IF context # None /\ DOMAIN context[1] # {} /\ "customer_id" \in DOMAIN context[1]
    THEN Returned(Some(context[1]["customer_id"]))
    ELSE CHOOSE r \in {IdSearch(query_lower) : query_lower \in {Lower(query)}} : TRUE

(***************************************************************************)
(* The email pattern of RouterAgent._handle_multi_intent                   *)
(***************************************************************************)
\* the last j in lo..hi with s[j] = '.' and a \w after it, 0 when none
LastDot(s, lo, hi) ==
    LET Dot(j) == CharAt(s, j) = "." /\ j + 1 <= Len(s) /\ IsWordChar(CharAt(s, j + 1))
    IN  IF \E j \in lo..hi : Dot(j)
        THEN CHOOSE j \in lo..hi : Dot(j) /\ \A k \in (j + 1)..hi : ~Dot(k)
        ELSE 0

\* the '.' that [\w\.-]+\.\w+ ends its first part at, for a domain starting at
\* b: the last '.' of the run of [\w\.-] that has a character of the run
\* before it and a \w after it; 0 when there is none
MailDot(s, b) == LastDot(s, b + 1, RunEnd(MailChars, s, b) - 1)

\* the last position of \.\w+ for the '.' at j, 0 when j is 0
MailTldEnd(s, j) == IF j # 0 THEN RunEnd(WordChars, s, j + 1) - 1 ELSE 0

\* the rest of the pattern after the run [\w\.-]+ that ends before a
MailAfterLocal(s, i, a) ==
    IF a > i /\ a <= Len(s) /\ CharAt(s, a) = "@"
    THEN CHOOSE e \in {MailTldEnd(s, j) : j \in {MailDot(s, a + 1)}} : TRUE
    ELSE 0

\* [\w\.-]+@[\w\.-]+\.\w+ at position i: the last position of the match, 0
\* when the pattern does not match there
MailMatchEnd(s, i) ==
    CHOOSE e \in {MailAfterLocal(s, i, a) : a \in {RunEnd(MailChars, s, i)}} : TRUE

\* the position of the leftmost match of the pattern in s, 0 when none
MailSearchStart(s) ==
    IF \E i \in 1..Len(s) : MailMatchEnd(s, i) # 0
    THEN CHOOSE i \in 1..Len(s) :
            MailMatchEnd(s, i) # 0 /\ \A k \in 1..(i - 1) : MailMatchEnd(s, k) = 0
    ELSE 0

\* re.search(r'[\w\.-]+@[\w\.-]+\.\w+', s): group(0) of the leftmost match,
\* None when there is no match
EmailSearch(s) ==
    CHOOSE r \in {IF i = 0 THEN None ELSE Some(SubSeq(s, i, MailMatchEnd(s, i))) :
                    i \in {MailSearchStart(s)}} : TRUE

(***************************************************************************)
(* SupportAgent: the computations that touch no store                      *)
(***************************************************************************)
MutHighUrgencyNoEmergency ==
    <<"urgent", "immediately", "critical", "down", "charged twice", "refund",
      "security", "breach">>

HighUrgency == <<"urgent", "immediately", "critical", "emergency", "down",
                 "charged twice", "refund", "security", "breach">>
MediumUrgency == <<"issue", "problem", "not working", "broken", "help">>

\* the keyword scan of _assess_urgency with the high-urgency list read from
\* its end
MutUrgencyLastMatch(query) ==
    LET last == IF AnyIn(query, HighUrgency)
                THEN CHOOSE i \in 1..Len(HighUrgency) :
                        /\ Contains(query, HighUrgency[i])
                        /\ \A j \in (i + 1)..Len(HighUrgency) : ~Contains(query, HighUrgency[j])
                ELSE 0
        m == FirstIn(query, MediumUrgency)
    IN  IF last # 0
        THEN [success |-> TRUE, urgency |-> "high", priority |-> "high",
              reason |-> "Contains high-urgency keyword: " \o HighUrgency[last]]
        ELSE IF m # 0
        THEN [success |-> TRUE, urgency |-> "medium", priority |-> "medium",
              reason |-> "Contains medium-urgency keyword: " \o MediumUrgency[m]]
        ELSE [success |-> TRUE, urgency |-> "low", priority |-> "low",
              reason |-> "General inquiry"]

\* the position of the first occurrence of k in s, 0 when there is none
FirstPos(s, k) ==
    IF Contains(s, k)
    THEN CHOOSE i \in 1..Len(s) : HasAt(s, i, k) /\ \A j \in 1..(i - 1) : ~HasAt(s, j, k)
    ELSE 0

\* the index of the keyword of kws that occurs earliest in s, 0 when none does
EarliestIn(s, kws) ==
    IF AnyIn(s, kws)
    THEN CHOOSE i \in 1..Len(kws) :
            /\ Contains(s, kws[i])
            /\ \A j \in 1..Len(kws) :
                    Contains(s, kws[j]) =>
                        \/ FirstPos(s, kws[i]) < FirstPos(s, kws[j])
                        \/ FirstPos(s, kws[i]) = FirstPos(s, kws[j]) /\ i <= j
    ELSE 0

\* the keyword scan of _assess_urgency citing the keyword that stands first
\* in the query, not the first of the list
MutUrgencyEarliestInText(query) ==
    CHOOSE r \in
        {IF h # 0
         THEN [success |-> TRUE, urgency |-> "high", priority |-> "high",
               reason |-> "Contains high-urgency keyword: " \o HighUrgency[h]]
         ELSE IF m # 0
         THEN [success |-> TRUE, urgency |-> "medium", priority |-> "medium",
               reason |-> "Contains medium-urgency keyword: " \o MediumUrgency[m]]
         ELSE [success |-> TRUE, urgency |-> "low", priority |-> "low",
               reason |-> "General inquiry"] :
            h \in {EarliestIn(query, HighUrgency)},
            m \in {EarliestIn(query, MediumUrgency)}} : TRUE

\* the keyword scan of _assess_urgency over the lower-cased query
UrgencyOf(query) ==
    CHOOSE r \in
        {IF h # 0
         THEN [success |-> TRUE, urgency |-> "high", priority |-> "high",
               reason |-> "Contains high-urgency keyword: " \o HighUrgency[h]]
         ELSE IF m # 0
         THEN [success |-> TRUE, urgency |-> "medium", priority |-> "medium",
               reason |-> "Contains medium-urgency keyword: " \o MediumUrgency[m]]
         ELSE [success |-> TRUE, urgency |-> "low", priority |-> "low",
               reason |-> "General inquiry"] :
            h \in {FirstIn(query, HighUrgency)},
            m \in {FirstIn(query, MediumUrgency)}} : TRUE

\* SupportAgent._assess_urgency
assess_urgency(task) ==
    CHOOSE r \in {UrgencyOf(query) : query \in {Lower(Get(task, "query", ""))}} : TRUE

MutLadderCancelFirst(query_lower, name) ==
    IF Contains(query_lower, "cancel")
    THEN "Hello " \o name \o ", I understand you're considering cancellation. Before we proceed, I'd like to understand your concerns. What's prompting this decision?"
    ELSE IF Contains(query_lower, "upgrade")
    THEN "Hello " \o name \o "! I'd be happy to help you upgrade your account. Let me check your current status and available options."
    ELSE IF Contains(query_lower, "refund") \/ Contains(query_lower, "charge")
    THEN "Hello " \o name \o ", I apologize for any billing issues. I'll escalate this to our billing team immediately. Can you provide more details?"
    ELSE IF Contains(query_lower, "help") \/ Contains(query_lower, "support")
    THEN "Hello " \o name \o "! I'm here to help with your inquiry. What can I assist you with today?"
    ELSE "Hello " \o name \o "! Thank you for reaching out. I'm reviewing your request and will provide assistance shortly."

\* the if/elif ladder of _generate_response over the lower-cased query
ResponseLadder(query_lower, name) ==
    IF Contains(query_lower, "upgrade")
    THEN "Hello " \o name \o "! I'd be happy to help you upgrade your account. Let me check your current status and available options."
    ELSE IF Contains(query_lower, "cancel")
    THEN "Hello " \o name \o ", I understand you're considering cancellation. Before we proceed, I'd like to understand your concerns. What's prompting this decision?"
    ELSE IF Contains(query_lower, "refund") \/ Contains(query_lower, "charge")
    THEN "Hello " \o name \o ", I apologize for any billing issues. I'll escalate this to our billing team immediately. Can you provide more details?"
    ELSE IF Contains(query_lower, "help") \/ Contains(query_lower, "support")
    THEN "Hello " \o name \o "! I'm here to help with your inquiry. What can I assist you with today?"
    ELSE "Hello " \o name \o "! Thank you for reaching out. I'm reviewing your request and will provide assistance shortly."

\* SupportAgent._generate_response
generate_response(query, name, status) ==
    CHOOSE r \in {ResponseLadder(query_lower, name) : query_lower \in {Lower(query)}} : TRUE

\* SupportAgent._provide_support
provide_support(task) ==
    LET query == Get(task, "query", "")
        customer_data == Get(task, "customer_data", EmptyDict)
        customer == Get(customer_data, "customer", EmptyDict)
        name == Get(customer, "name", "Customer")
        status == Get(customer, "status", "unknown")
    IN  [success |-> TRUE, response |-> generate_response(query, name, status)]

(***************************************************************************)
(* sqlite3 behind MCPServer                                                *)
(***************************************************************************)
\* What sqlite3 does during one store call: "none" (it works), "query" (a
\* statement raises inside the operation's try block) or "connect"
\* (sqlite3.connect raises in _get_connection, before the try block).
Faults == {"none", "query", "connect"}
QueryError == "database is locked"
ConnectError == "unable to open database file"

NotFound(customer_id) == "Customer " \o PyStr(customer_id) \o " not found"

(***************************************************************************)
(* MCPServer: the store operations.  customers maps the ids present to     *)
(* their rows, tickets is the table in insertion order.  A customer_id     *)
(* argument is an Optional[int]: the agents pass task.get('customer_id').  *)
(***************************************************************************)
\* SELECT id FROM customers WHERE id = ? finds a row
Exists(cs, customer_id) ==
    customer_id # None /\ customer_id[1] \in DOMAIN cs

\* the sequences holding each element of the finite set S once, ordered by
\* key descending (every order SQL's ORDER BY key DESC may produce)
OrdersDesc(S, key) ==
    {r \in [1..Cardinality(S) -> S] :
        /\ \A i, j \in DOMAIN r : i # j => r[i] # r[j]
        /\ \A i, j \in DOMAIN r : i < j => r[i][key] >= r[j][key]}

TicketRows(ts) == {ts[i] : i \in DOMAIN ts}

\* MCPServer.get_customer
mcp_get_customer(cs, customer_id, fault) ==
    IF fault = "connect" THEN Raised(ConnectError)
    ELSE IF fault = "query" THEN Returned([success |-> FALSE, error |-> QueryError])
    ELSE IF Exists(cs, customer_id)
    THEN Returned([success |-> TRUE, customer |-> cs[customer_id[1]]])
    ELSE Returned([success |-> FALSE, error |-> NotFound(customer_id)])

AllowedFields == {"name", "email", "phone", "status"}

MutUpdatedRowEveryKey(row, data) ==
    [f \in DOMAIN row \cup DOMAIN data |->
        IF f \in DOMAIN data THEN data[f] ELSE row[f]]

\* the customers table after UPDATE customers SET <allowed fields of data>
UpdatedRow(row, data) ==
    [f \in DOMAIN row |->
        IF f \in AllowedFields /\ f \in DOMAIN data THEN data[f] ELSE row[f]]

MutUpdateReportsWritten(cs, customer_id, data, fault) ==
    IF fault = "connect" THEN [out |-> Raised(ConnectError), customers |-> cs]
    ELSE IF fault = "query"
    THEN [out |-> Returned([success |-> FALSE, error |-> QueryError]), customers |-> cs]
    ELSE IF ~Exists(cs, customer_id)
    THEN [out |-> Returned([success |-> FALSE, error |-> NotFound(customer_id)]),
          customers |-> cs]
    ELSE IF DOMAIN data \cap AllowedFields = {}
    THEN [out |-> Returned([success |-> FALSE, error |-> "No valid fields to update"]),
          customers |-> cs]
    ELSE [out |-> Returned([success |-> TRUE, customer_id |-> customer_id[1],
                            updated_fields |-> DOMAIN data \cap AllowedFields]),
          customers |-> [cs EXCEPT ![customer_id[1]] = UpdatedRow(@, data)]]

\* MCPServer.update_customer: [out, customers]
mcp_update_customer(cs, customer_id, data, fault) ==
    IF fault = "connect" THEN [out |-> Raised(ConnectError), customers |-> cs]
    ELSE IF fault = "query"
    THEN [out |-> Returned([success |-> FALSE, error |-> QueryError]), customers |-> cs]
    ELSE IF ~Exists(cs, customer_id)
    THEN [out |-> Returned([success |-> FALSE, error |-> NotFound(customer_id)]),
          customers |-> cs]
    ELSE IF DOMAIN data \cap AllowedFields = {}
    THEN [out |-> Returned([success |-> FALSE, error |-> "No valid fields to update"]),
          customers |-> cs]
    ELSE [out |-> Returned([success |-> TRUE, customer_id |-> customer_id[1],
                            updated_fields |-> DOMAIN data]),
          customers |-> [cs EXCEPT ![customer_id[1]] = UpdatedRow(@, data)]]

\* the orders in which SELECT ... WHERE customer_id = ? ORDER BY created_at
\* DESC may list the customer's tickets
HistoryOrders(ts, customer_id) ==
    OrdersDesc({t \in TicketRows(ts) : Some(t.customer_id) = customer_id},
               "created_at")

\* MCPServer.get_customer_history; rows is the order the query produced
mcp_get_customer_history(cs, customer_id, rows, fault) ==
    IF fault = "connect" THEN Raised(ConnectError)
    ELSE IF fault = "query" THEN Returned([success |-> FALSE, error |-> QueryError])
    ELSE IF ~Exists(cs, customer_id)
    THEN Returned([success |-> FALSE, error |-> NotFound(customer_id)])
    ELSE Returned([success |-> TRUE, customer_id |-> customer_id[1],
                   customer_name |-> cs[customer_id[1]].name,
                   tickets |-> rows, ticket_count |-> Len(rows)])

\* COUNT(t.id) of the customer's open tickets
OpenTicketCount(ts, customer_id) ==
    Cardinality({i \in DOMAIN ts :
        ts[i].customer_id = customer_id /\ ts[i].status = "open"})

MutOpenTicketRowsAnyCustomer(cs, ts) ==
    {[id |-> c, name |-> cs[c].name, email |-> cs[c].email,
      status |-> cs[c].status,
      open_ticket_count |-> OpenTicketCount(ts, c)] :
        c \in {d \in DOMAIN cs : OpenTicketCount(ts, d) > 0}}

\* the rows of customers JOIN tickets WHERE c.status = 'active' AND
\* t.status = 'open' GROUP BY c.id
OpenTicketRows(cs, ts) ==
    {[id |-> c, name |-> cs[c].name, email |-> cs[c].email,
      status |-> cs[c].status,
      open_ticket_count |-> OpenTicketCount(ts, c)] :
        c \in {d \in DOMAIN cs :
                  /\ cs[d].status = "active"
                  /\ OpenTicketCount(ts, d) > 0}}

\* the orders ORDER BY open_ticket_count DESC may produce
OpenTicketOrders(cs, ts) ==
    OrdersDesc(OpenTicketRows(cs, ts), "open_ticket_count")

\* MCPServer.get_customers_with_open_tickets; rows is the order produced
mcp_get_customers_with_open_tickets(rows, fault) ==
    IF fault = "connect" THEN Raised(ConnectError)
    ELSE IF fault = "query" THEN Returned([success |-> FALSE, error |-> QueryError])
    ELSE Returned([success |-> TRUE, customers |-> rows, count |-> Len(rows)])

\* the results SELECT ... FROM customers [WHERE status = ?] LIMIT ? may give:
\* up to limit of the matching rows, each once, in any order
ListOrders(cs, status, limit) ==
    LET match == {cs[c] : c \in {d \in DOMAIN cs :
                      status = None \/ status[1] = "" \/ cs[d].status = status[1]}}
        n == IF Cardinality(match) < limit THEN Cardinality(match) ELSE limit
    IN  {r \in [1..n -> match] : \A i, j \in DOMAIN r : i # j => r[i] # r[j]}

\* MCPServer.list_customers; rows is the result the query produced
mcp_list_customers(rows, fault) ==
    IF fault = "connect" THEN Raised(ConnectError)
    ELSE IF fault = "query" THEN Returned([success |-> FALSE, error |-> QueryError])
    ELSE Returned([success |-> TRUE, customers |-> rows, count |-> Len(rows)])

Priorities == {"low", "medium", "high"}

MutCreateTicketUnvalidated(cs, ts, customer_id, issue, priority, now, fault) ==
    IF fault = "connect" THEN [out |-> Raised(ConnectError), tickets |-> ts]
    ELSE IF fault = "query"
    THEN [out |-> Returned([success |-> FALSE, error |-> QueryError]), tickets |-> ts]
    ELSE IF customer_id = None
    THEN [out |-> Returned([success |-> FALSE, error |-> NotFound(customer_id)]),
          tickets |-> ts]
    ELSE [out |-> Returned([success |-> TRUE, ticket_id |-> 1 + Len(ts),
                            customer_id |-> customer_id[1], issue |-> issue,
                            priority |-> priority, status |-> "open"]),
          tickets |-> Append(ts,
                             [id |-> 1 + Len(ts), customer_id |-> customer_id[1],
                              issue |-> issue, status |-> "open",
                              priority |-> priority, created_at |-> now])]

\* MCPServer.create_ticket: [out, tickets]; now is the time of the insert
mcp_create_ticket(cs, ts, customer_id, issue, priority, now, fault) ==
    IF fault = "connect" THEN [out |-> Raised(ConnectError), tickets |-> ts]
    ELSE IF fault = "query"
    THEN [out |-> Returned([success |-> FALSE, error |-> QueryError]), tickets |-> ts]
    ELSE IF ~Exists(cs, customer_id)
    THEN [out |-> Returned([success |-> FALSE, error |-> NotFound(customer_id)]),
          tickets |-> ts]
    ELSE LET prio == IF priority \notin Priorities THEN "medium" ELSE priority
             \* cursor.lastrowid: one more than the largest id of the table
             ticket_id == 1 + Len(ts)
         IN  [out |-> Returned([success |-> TRUE, ticket_id |-> ticket_id,
                                customer_id |-> customer_id[1], issue |-> issue,
                                priority |-> prio, status |-> "open"]),
              tickets |-> Append(ts,
                                 [id |-> ticket_id, customer_id |-> customer_id[1],
                                  issue |-> issue, status |-> "open",
                                  priority |-> prio, created_at |-> now])]

\* the orders SELECT ... FROM tickets t JOIN customers c WHERE t.priority = ?
\* [AND t.customer_id IN (...)] ORDER BY t.created_at DESC may produce
PriorityOrders(cs, ts, priority, customer_ids) ==
    OrdersDesc({[id |-> t.id, customer_id |-> t.customer_id,
                 customer_name |-> cs[t.customer_id].name,
                 issue |-> t.issue, status |-> t.status, priority |-> t.priority,
                 created_at |-> t.created_at] :
                    t \in {u \in TicketRows(ts) :
                              /\ u.customer_id \in DOMAIN cs
                              /\ u.priority = priority
                              /\ \/ customer_ids = None
                                 \/ customer_ids[1] = {}
                                 \/ u.customer_id \in customer_ids[1]}},
               "created_at")

\* MCPServer.get_tickets_by_priority; rows is the order produced
mcp_get_tickets_by_priority(priority, rows, fault) ==
    IF fault = "connect" THEN Raised(ConnectError)
    ELSE IF fault = "query" THEN Returned([success |-> FALSE, error |-> QueryError])
    ELSE Returned([success |-> TRUE, priority |-> priority, tickets |-> rows,
                   count |-> Len(rows)])

(***************************************************************************)
(* Agent.log and the two specialist agents                                 *)
(***************************************************************************)
\* one entry of an agent's logs list (its agent is the list it is in)
Entry(level, message) == [level |-> level, message |-> message]
Info(message) == Entry("INFO", message)
Error(message) == Entry("ERROR", message)

\* the entry process() logs before it routes the task
ProcessingEntry(action) == Info("Processing task: " \o action)

\* process() with an except clause that returns no error message
MutAgentProcessNoMessage(action, routed) ==
    IF routed.raised
    THEN [raised |-> FALSE, result |-> [success |-> FALSE],
          log |-> <<ProcessingEntry(action),
                    Error("[x] Exception: " \o routed.error)>>]
    ELSE [raised |-> FALSE, result |-> routed.value,
          log |-> <<ProcessingEntry(action),
                    IF Get(routed.value, "success", FALSE)
                    THEN Info("[ok] Task completed: " \o action)
                    ELSE Error("[x] Task failed: " \o Get(routed.value, "error", "None"))>>]

MutAgentProcessCompletedAlways(action, routed) ==
    IF routed.raised
    THEN [raised |-> FALSE, result |-> [success |-> FALSE, error |-> routed.error],
          log |-> <<ProcessingEntry(action),
                    Error("[x] Exception: " \o routed.error)>>]
    ELSE [raised |-> FALSE, result |-> routed.value,
          log |-> <<ProcessingEntry(action),
                    Info("[ok] Task completed: " \o action)>>]

\* the part of process() after the routing: the outcome entry and the return
\* value, with the except clause for an exception raised while routing
AgentProcess(action, routed) ==
    IF routed.raised
    THEN [raised |-> FALSE, result |-> [success |-> FALSE, error |-> routed.error],
          log |-> <<ProcessingEntry(action),
                    Error("[x] Exception: " \o routed.error)>>]
    ELSE [raised |-> FALSE, result |-> routed.value,
          log |-> <<ProcessingEntry(action),
                    IF Get(routed.value, "success", FALSE)
                    THEN Info("[ok] Task completed: " \o action)
                    ELSE Error("[x] Task failed: " \o Get(routed.value, "error", "None"))>>]

\* what the store does during one call: a fault, and for a SELECT of several
\* rows the order it lists them in
DataEnvs(task, cs, ts) ==
    LET action == Get(task, "action", "None")
        orders ==
            IF action = "get_customer_history"
            THEN HistoryOrders(ts, Get(task, "customer_id", None))
            ELSE IF action = "get_customers_with_open_tickets"
            THEN OpenTicketOrders(cs, ts)
            ELSE IF action = "list_customers"
            THEN ListOrders(cs, Get(task, "status", None), Get(task, "limit", 10))
            ELSE {<<>>}
    IN  {[fault |-> f, rows |-> r] : f \in Faults, r \in orders}

\* CustomerDataAgent.process: [raised, result, log, customers]
data_agent_process(task, cs, env) ==
    LET action == Get(task, "action", "None")
        customer_id == Get(task, "customer_id", None)
        upd == mcp_update_customer(cs, customer_id,
                                   Get(task, "data", EmptyDict), env.fault)
        routed ==
            IF action = "get_customer"
            THEN mcp_get_customer(cs, customer_id, env.fault)
            ELSE IF action = "list_customers"
            THEN mcp_list_customers(env.rows, env.fault)
            ELSE IF action = "update_customer" THEN upd.out
            ELSE IF action = "get_customer_history"
            THEN mcp_get_customer_history(cs, customer_id, env.rows, env.fault)
            ELSE IF action = "get_customers_with_open_tickets"
            THEN mcp_get_customers_with_open_tickets(env.rows, env.fault)
            ELSE Returned([success |-> FALSE, error |-> "Unknown action: " \o action])
    IN  [customers |-> IF action = "update_customer" THEN upd.customers ELSE cs]
        @@ AgentProcess(action, routed)

\* what the store does during one call of the support agent
SupportEnvs(task, cs, ts) ==
    LET action == Get(task, "action", "None")
        orders ==
            IF action = "get_high_priority_tickets"
            THEN PriorityOrders(cs, ts, "high", Get(task, "customer_ids", None))
            ELSE {<<>>}
    IN  {[fault |-> f, rows |-> r] :
            f \in (IF action \in {"create_ticket", "get_high_priority_tickets"}
                   THEN Faults ELSE {"none"}),
            r \in orders}

\* SupportAgent.process: [raised, result, log, tickets]
support_agent_process(task, cs, ts, now, env) ==
    LET action == Get(task, "action", "None")
        crt == mcp_create_ticket(cs, ts, Get(task, "customer_id", None),
                                 Get(task, "issue", ""), Get(task, "priority", "medium"),
                                 now, env.fault)
        routed ==
            IF action = "create_ticket" THEN crt.out
            ELSE IF action = "provide_support" THEN Returned(provide_support(task))
            ELSE IF action = "assess_urgency" THEN Returned(assess_urgency(task))
            ELSE IF action = "get_high_priority_tickets"
            THEN mcp_get_tickets_by_priority("high", env.rows, env.fault)
            ELSE Returned([success |-> FALSE, error |-> "Unknown action: " \o action])
    IN  [tickets |-> IF action = "create_ticket" THEN crt.tickets ELSE ts]
        @@ AgentProcess(action, routed)

\* what the store does during the call agent.process(task)
SpecialistEnvs(agent, task, cs, ts) ==
    IF agent = "CustomerDataAgent" THEN DataEnvs(task, cs, ts)
    ELSE SupportEnvs(task, cs, ts)

\* agent.process(task) as the router calls it: [raised, result, log,
\* customers, tickets]
SpecialistProcess(agent, task, cs, ts, env) ==
    IF agent = "CustomerDataAgent"
    THEN [tickets |-> ts] @@ data_agent_process(task, cs, env)
    ELSE [customers |-> cs]
         @@ support_agent_process(task, cs, ts, 0, env)

(***************************************************************************)
(* Bounds and inputs                                                       *)
(***************************************************************************)
\* queries a behaviour hands to process_query
MaxQueries == 1
\* host threads that may call process_query
Procs == {1, 2}

\* the rows a store may hold
SeedCustomers ==
    [c \in {1, 2, 4, 5} |->
        [id |-> c,
         name |-> CASE c = 1 -> "Ann Lee" [] c = 2 -> "Bob Ray"
                    [] c = 4 -> "Dee Kim" [] OTHER -> "Eve Fox",
         email |-> CASE c = 1 -> "ann@example.com" [] c = 2 -> "bob@example.com"
                     [] c = 4 -> "dee@example.com" [] OTHER -> "eve@example.com",
         phone |-> "+1-555-010" \o ToString(c),
         status |-> IF c = 4 THEN "disabled" ELSE "active"]]

SeedTickets ==
    << [id |-> 1, customer_id |-> 1, issue |-> "Cannot log in", status |-> "open",
        priority |-> "high", created_at |-> 1],
       [id |-> 2, customer_id |-> 1, issue |-> "Billing question", status |-> "open",
        priority |-> "low", created_at |-> 2],
       [id |-> 3, customer_id |-> 2, issue |-> "Password reset", status |-> "closed",
        priority |-> "medium", created_at |-> 3],
       [id |-> 4, customer_id |-> 4, issue |-> "Export fails", status |-> "open",
        priority |-> "medium", created_at |-> 4],
       [id |-> 5, customer_id |-> 5, issue |-> "Slow dashboard", status |-> "open",
        priority |-> "high", created_at |-> 5],
       [id |-> 6, customer_id |-> 2, issue |-> "Feature request", status |-> "open",
        priority |-> "low", created_at |-> 6] >>

\* the customers the store holds when the dispatcher is constructed
InitialCustomerSets == {{1, 2, 4, 5}, {2, 4}, {}}

\* c repeated n times, by halves
RECURSIVE Repeat(_, _)
Repeat(c, n) ==
    IF n <= 0 THEN ""
    ELSE IF n = 1 THEN c
    ELSE Repeat(c, n \div 2) \o Repeat(c, n - n \div 2)

\* texts naming an id of one digit more than int() converts
OverlongIdText == "get customer " \o Repeat("7", IntMaxStrDigits + 1)
OverlongIdUrgentText == "urgent: customer " \o Repeat("7", IntMaxStrDigits + 1)

\* the texts handed to process_query
Texts ==
    { "Get customer information for ID 5",
      "show customer",
      "Show customer 2",
      "help me get customer 5",
      "I'm customer 1 and need help upgrading my account",
      "Please upgrade the plan of customer 2",
      "I need support",
      "Show me all active customers who have open tickets",
      "list all customers",
      "any high-priority tickets?",
      "open tickets of ACTIVE customers",
      "active customers and their tickets",
      "What is the phone of customer 5?",
      "I've been charged twice, please refund immediately!",
      "URGENT: customer 9 is locked out",
      "Update my email to newemail@test.com and show my ticket history",
      "update my email and show my tickets",
      "get the list",
      "customer 0 needs help",
      "hello there",
      OverlongIdText,
      OverlongIdUrgentText }

\* the contexts handed to process_query: None, {} and dicts with and without
\* customer_id
Contexts ==
    { None, Some(EmptyDict), Some([channel |-> "web"]),
      Some([customer_id |-> 0]), Some([customer_id |-> 1]),
      Some([customer_id |-> 2]), Some([customer_id |-> 4]) }

(***************************************************************************)
(* State                                                                   *)
(***************************************************************************)
VARIABLES
    customers,  \* the customers table: id -> row
    tickets,    \* the tickets table, in insertion order
    logs,       \* Agent.logs of each of the three agents
    hosts,      \* the host threads calling process_query
    q,          \* per host thread: where its process_query call stands
    served      \* process_query calls started so far

vars == <<customers, tickets, logs, hosts, q, served>>

Agents == {"RouterAgent", "CustomerDataAgent", "SupportAgent"}

\* a process_query call: pc is the position in the code, loc the handler's
\* local variables, calls the specialist calls made so far with their
\* results, ret the returned Result (None before the return)
Frame(pc, query, context, intent, loc, calls, ret) ==
    [pc |-> pc, query |-> query, context |-> context, intent |-> intent,
     loc |-> loc, calls |-> calls, ret |-> ret]

Idle == Frame("idle", "", None, "", EmptyDict, <<>>, None)

\* Agent.__init__ of the three agents, RouterAgent.__init__
InitLogs ==
    [a \in Agents |->
        CASE a = "CustomerDataAgent" -> <<Info("Initialized - Role: Data Specialist")>>
          [] a = "SupportAgent" -> <<Info("Initialized - Role: Support Specialist")>>
          [] OTHER -> <<Info("Initialized - Role: Orchestrator"),
                        Info("Connected to CustomerDataAgent and SupportAgent")>>]

\* the tickets of the customers in ids, renumbered as their table would be
RECURSIVE TicketsOf(_, _)
TicketsOf(ids, seed) ==
    IF seed = <<>> THEN <<>>
    ELSE LET rest == TicketsOf(ids, SubSeq(seed, 1, Len(seed) - 1))
             t == seed[Len(seed)]
         IN  IF t.customer_id \in ids
             THEN Append(rest, [t EXCEPT !.id = Len(rest) + 1])
             ELSE rest

InitStore ==
    \E ids \in InitialCustomerSets :
        /\ customers = [c \in ids |-> SeedCustomers[c]]
        /\ tickets = TicketsOf(ids, SeedTickets)

Init ==
    /\ InitStore
    /\ logs = InitLogs
    /\ hosts = {1}
    /\ q = [p \in Procs |-> Idle]
    /\ served = 0

(***************************************************************************)
(* RouterAgent                                                             *)
(***************************************************************************)
\* result.get('success')
Succeeded(result) == Get(result, "success", FALSE)

\* str() of the context dicts of Contexts
ContextRepr(d) ==
    "{" \o (IF "customer_id" \in DOMAIN d
            THEN "'customer_id': " \o ToString(d["customer_id"]) ELSE "")
        \o (IF "customer_id" \in DOMAIN d /\ "channel" \in DOMAIN d THEN ", " ELSE "")
        \o (IF "channel" \in DOMAIN d THEN "'channel': '" \o d["channel"] \o "'" ELSE "")
        \o "}"

\* the logs after the three agents appended these entries
LogsAfter(router, data, support) ==
    [a \in Agents |->
        logs[a] \o (CASE a = "RouterAgent" -> router
                      [] a = "CustomerDataAgent" -> data
                      [] OTHER -> support)]

\* one specialist call as the router saw it
CallRec(agent, task, r, env) ==
    [agent |-> agent, task |-> task, fault |-> env.fault,
     result |-> IF r.raised THEN [raised |-> TRUE] ELSE r.result]

\* the frame after the call returned ret
Done(fr, calls, ret) ==
    Frame("done", fr.query, fr.context, fr.intent, EmptyDict, calls, Some(ret))
\* the frame after an exception left process_query
Escaped(fr, calls) ==
    Frame("raised", fr.query, fr.context, fr.intent, EmptyDict, calls, None)
\* the frame at the next position of the handler
Goto(fr, pc, loc, calls) ==
    Frame(pc, fr.query, fr.context, fr.intent, loc, calls, None)

\* a dispatch with a branch for every intent
MutHandledIntentsAll == Intents

\* the intents process_query has a branch for
HandledIntents == {"simple_data_query", "coordinated_support", "complex_analysis",
                   "escalation", "multi_intent"}

\* the entries process_query logs before it dispatches
Received(query, context) ==
    <<Info("Received query: '" \o query \o "'")>>
    \o (IF context # None /\ DOMAIN context[1] # {}
        THEN <<Info("Context: " \o ContextRepr(context[1]))>> ELSE <<>>)
    \o <<Info("Detected intent: " \o analyze_intent(query))>>

\* the frame process_query goes on with: the handler of the intent, or the
\* return of the else branch
Dispatched(query, context) ==
    LET intent == analyze_intent(query)
        fr == Frame(intent, query, context, intent, EmptyDict, <<>>, None)
    IN  IF intent \in HandledIntents THEN fr
        ELSE Done(fr, <<>>, [success |-> FALSE,
                             error |-> "Unable to determine query intent"])

\* process_query up to the call of the handler
ProcessQuery(p) ==
    /\ p \in hosts
    /\ q[p].pc \in {"idle", "done", "answered"}
    /\ served < MaxQueries
    /\ \E query \in Texts, context \in Contexts :
        /\ logs' = LogsAfter(Received(query, context), <<>>, <<>>)
        /\ q' = [q EXCEPT ![p] = Dispatched(query, context)]
    /\ served' = served + 1
    /\ UNCHANGED <<customers, tickets, hosts>>

\* a stretch of a handler that ends without a specialist call: the entries the
\* router logged and the frame it ends in
Ends(router, frame) == [call |-> FALSE, router |-> router, frame |-> frame]
\* a stretch of a handler up to agent.process(task): the entries the router
\* logged before the call
Calls(router, agent, task) ==
    [call |-> TRUE, router |-> router, agent |-> agent, task |-> task]

\* the response of _handle_simple_query
SimpleResponse(customer) ==
    "Customer Information:\n"
    \o "  ID: " \o ToString(customer.id) \o "\n"
    \o "  Name: " \o customer.name \o "\n"
    \o "  Email: " \o customer.email \o "\n"
    \o "  Phone: " \o customer.phone \o "\n"
    \o "  Status: " \o customer.status \o "\n"

\* _handle_simple_query up to the call of the data agent
SimpleQueryBefore(fr) ==
    LET pattern == Info("Pattern: TASK ALLOCATION (Simple Query)")
        extracted == CHOOSE x \in {extract_customer_id(fr.query, fr.context)} : TRUE
        customer_id == IF extracted.raised THEN None ELSE extracted.value
        sent == Info("-> CustomerDataAgent: get_customer(" \o PyStr(customer_id) \o ")")
    IN  IF extracted.raised
        THEN Ends(<<pattern>>, Escaped(fr, fr.calls))
        ELSE IF ~Truthy(customer_id)
        THEN Ends(<<pattern>>,
                  Done(fr, fr.calls,
                       [success |-> FALSE,
                        error |-> "Customer ID required but not found in query or context"]))
        ELSE Calls(<<pattern, sent>>, "CustomerDataAgent",
                   [action |-> "get_customer", customer_id |-> customer_id])

\* _handle_simple_query from the return of the data agent
SimpleQueryAfter(fr, task, r, env) ==
    LET calls == Append(fr.calls, CallRec("CustomerDataAgent", task, r, env))
        received == Info("<- CustomerDataAgent: Data received")
    IN  IF r.raised
        THEN Ends(<<>>, Escaped(fr, calls))
        ELSE IF ~Succeeded(r.result)
        THEN Ends(<<>>, Done(fr, calls, r.result))
        ELSE IF "customer" \notin DOMAIN r.result
        THEN Ends(<<received>>, Escaped(fr, calls))
        ELSE Ends(<<received, Info("[ok] Query completed successfully")>>,
                  Done(fr, calls,
                       [success |-> TRUE,
                        response |-> SimpleResponse(r.result.customer),
                        data |-> r.result]))

\* the handler going on to step 2 whatever get_customer returned
MutCoordinatedNoFailFast(fr, customer_id, calls, customer_result) ==
    Goto(fr, "coordinated_support_2",
         [customer_id |-> customer_id, customer_result |-> customer_result], calls)

\* _handle_coordinated_support after get_customer returned: the failed Result
\* is returned as it is, a success goes on to step 2
CoordinatedAfterGet(fr, customer_id, calls, customer_result) ==
    IF ~Succeeded(customer_result)
    THEN Done(fr, calls, customer_result)
    ELSE Goto(fr, "coordinated_support_2",
              [customer_id |-> customer_id, customer_result |-> customer_result], calls)

\* _handle_coordinated_support, step 1, up to the call of the data agent
CoordinatedGetBefore(fr) ==
    LET pattern == Info("Pattern: NEGOTIATION (Coordinated Support)")
        extracted == CHOOSE x \in {extract_customer_id(fr.query, fr.context)} : TRUE
        customer_id == IF extracted.raised THEN None ELSE extracted.value
        sent == Info("-> CustomerDataAgent: get_customer(" \o PyStr(customer_id) \o ")")
    IN  IF extracted.raised
        THEN Ends(<<pattern>>, Escaped(fr, fr.calls))
        ELSE IF ~Truthy(customer_id)
        THEN Ends(<<pattern>>,
                  Done(fr, fr.calls,
                       [success |-> FALSE,
                        error |-> "Customer ID required for support queries"]))
        ELSE Calls(<<pattern, sent>>, "CustomerDataAgent",
                   [action |-> "get_customer", customer_id |-> customer_id])

\* _handle_coordinated_support, step 1, from the return of the data agent
CoordinatedGetAfter(fr, task, r, env) ==
    LET calls == Append(fr.calls, CallRec("CustomerDataAgent", task, r, env))
    IN  IF r.raised
        THEN Ends(<<>>, Escaped(fr, calls))
        ELSE Ends(IF Succeeded(r.result)
                  THEN <<Info("<- CustomerDataAgent: Customer data received")>>
                  ELSE <<>>,
                  CoordinatedAfterGet(fr, task.customer_id, calls, r.result))

\* _handle_coordinated_support, step 2, up to the call of the support agent
MutCoordinatedOpensTicket(fr) ==
    Calls(<<Info("-> SupportAgent: create_ticket()")>>, "SupportAgent",
          [action |-> "create_ticket",
           customer_id |-> Some(fr.loc.customer_result.customer.id),
           issue |-> fr.query, priority |-> "medium"])

CoordinatedSupportBefore(fr) ==
    Calls(<<Info("-> SupportAgent: provide_support()")>>, "SupportAgent",
          [action |-> "provide_support",
           customer_data |-> fr.loc.customer_result, query |-> fr.query])

\* _handle_coordinated_support, step 2, from the return of the support agent
CoordinatedSupportAfter(fr, task, r, env) ==
    LET calls == Append(fr.calls, CallRec("SupportAgent", task, r, env))
        generated == <<Info("<- SupportAgent: Support response generated"),
                       Info("[ok] Coordinated query completed successfully")>>
    IN  IF r.raised
        THEN Ends(<<>>, Escaped(fr, calls))
        ELSE IF ~Succeeded(r.result)
        THEN Ends(<<>>, Done(fr, calls, r.result))
        ELSE IF "response" \notin DOMAIN r.result
        THEN Ends(generated, Escaped(fr, calls))
        ELSE Ends(generated,
                  Done(fr, calls,
                       [success |-> TRUE,
                        response |-> r.result.response,
                        customer_data |-> fr.loc.customer_result]))

\* the lines _handle_complex_analysis writes for the customers
RECURSIVE CustomerLines(_)
CustomerLines(rows) ==
    IF rows = <<>> THEN ""
    ELSE "  * " \o rows[1].name \o " (ID: " \o ToString(rows[1].id) \o ")\n"
         \o "    Email: " \o rows[1].email \o "\n"
         \o "    Open Tickets: " \o ToString(rows[1].open_ticket_count) \o "\n\n"
         \o CustomerLines(Tail(rows))

\* the test of the sub-pattern with `or` in place of `and`
MutKnownSubPatternEither(query_lower) ==
    Contains(query_lower, "active customers") \/ Contains(query_lower, "open tickets")

\* the one sub-pattern _handle_complex_analysis knows
KnownSubPattern(query_lower) ==
    Contains(query_lower, "active customers") /\ Contains(query_lower, "open tickets")

\* _handle_complex_analysis up to the call of the data agent
ComplexAnalysisBefore(fr) ==
    LET pattern == Info("Pattern: MULTI-STEP COORDINATION (Complex Analysis)")
    IN  IF KnownSubPattern(Lower(fr.query))
        THEN Calls(<<pattern, Info("Sub-task: Get active customers with open tickets"),
                     Info("-> CustomerDataAgent: get_customers_with_open_tickets()")>>,
                   "CustomerDataAgent",
                   [action |-> "get_customers_with_open_tickets"])
        ELSE Ends(<<pattern>>,
                  Done(fr, fr.calls,
                       [success |-> FALSE,
                        error |-> "Complex query pattern not recognized"]))

\* _handle_complex_analysis from the return of the data agent
ComplexAnalysisAfter(fr, task, r, env) ==
    LET calls == Append(fr.calls, CallRec("CustomerDataAgent", task, r, env))
    IN  IF r.raised
        THEN Ends(<<>>, Escaped(fr, calls))
        ELSE IF ~Succeeded(r.result)
        THEN Ends(<<>>, Done(fr, calls, r.result))
        ELSE IF {"count", "customers"} \subseteq DOMAIN r.result
        THEN Ends(<<Info("<- CustomerDataAgent: Found "
                         \o ToString(r.result.count) \o " customers"),
                    Info("[ok] Complex analysis completed successfully")>>,
                  Done(fr, calls,
                       [success |-> TRUE,
                        response |->
                            "Active Customers with Open Tickets:\n\n"
                            \o "Total: " \o ToString(Len(r.result.customers))
                            \o " customers\n\n"
                            \o CustomerLines(r.result.customers),
                        customers |-> r.result.customers]))
        ELSE Ends(<<>>, Escaped(fr, calls))

\* _handle_escalation, step 1, up to the call of the support agent
EscalationAssessBefore(fr) ==
    Calls(<<Info("Pattern: ESCALATION (High Priority)"),
            Info("-> SupportAgent: assess_urgency()")>>,
          "SupportAgent", [action |-> "assess_urgency", query |-> fr.query])

\* _handle_escalation, step 1, from the return of the support agent
EscalationAssessAfter(fr, task, r, env) ==
    LET calls == Append(fr.calls, CallRec("SupportAgent", task, r, env))
    IN  IF r.raised
        THEN Ends(<<>>, Escaped(fr, calls))
        ELSE Ends(<<Info("<- SupportAgent: Urgency = "
                         \o Get(r.result, "urgency", "unknown"))>>,
                  Goto(fr, "escalation_2", [urgency_result |-> r.result], calls))

\* the response of _handle_escalation; customer_data is None or Some(result)
EscalationResponse(urgency_result, customer_data) ==
    "[!] ESCALATED TICKET - Priority Support\n\n"
    \o (IF customer_data # None
        THEN "Customer: " \o customer_data[1].customer.name
             \o " (ID: " \o ToString(customer_data[1].customer.id) \o ")\n"
             \o "Contact: " \o customer_data[1].customer.email \o "\n\n"
        ELSE "")
    \o "Urgency: " \o Upper(Get(urgency_result, "urgency", "unknown")) \o "\n"
    \o "Priority: " \o Get(urgency_result, "priority", "medium") \o "\n"
    \o "Reason: " \o Get(urgency_result, "reason", "Escalated by system") \o "\n\n"
    \o "This issue has been flagged for immediate attention.\n"
    \o "Expected response time: Within 1 hour\n"

\* the handler returning the support agent's Result as it came
MutEscalationResultPassThrough(urgency_result, customer_data) == urgency_result

\* the Result _handle_escalation returns
EscalationResult(urgency_result, customer_data) ==
    [success |-> TRUE,
     response |-> EscalationResponse(urgency_result, customer_data),
     urgency |-> urgency_result,
     customer_data |-> customer_data]

\* _handle_escalation, step 2, up to the call of the data agent, made if an
\* id is available
EscalationGetBefore(fr) ==
    LET extracted == CHOOSE x \in {extract_customer_id(fr.query, fr.context)} : TRUE
        customer_id == IF extracted.raised THEN None ELSE extracted.value
        sent == Info("-> CustomerDataAgent: get_customer(" \o PyStr(customer_id) \o ")")
    IN  IF extracted.raised
        THEN Ends(<<>>, Escaped(fr, fr.calls))
        ELSE IF Truthy(customer_id)
        THEN Calls(<<sent>>, "CustomerDataAgent",
                   [action |-> "get_customer", customer_id |-> customer_id])
        ELSE Ends(<<Info("[ok] Escalation handled successfully")>>,
                  Done(fr, fr.calls, EscalationResult(fr.loc.urgency_result, None)))

\* _handle_escalation, step 2, from the return of the data agent
EscalationGetAfter(fr, task, r, env) ==
    LET calls == Append(fr.calls, CallRec("CustomerDataAgent", task, r, env))
        urgency_result == fr.loc.urgency_result
        finished == Info("[ok] Escalation handled successfully")
    IN  IF r.raised
        THEN Ends(<<>>, Escaped(fr, calls))
        ELSE IF Succeeded(r.result)
        THEN Ends(<<Info("<- CustomerDataAgent: Customer data received"), finished>>,
                  IF "customer" \in DOMAIN r.result
                  THEN Done(fr, calls, EscalationResult(urgency_result, Some(r.result)))
                  ELSE Escaped(fr, calls))
        ELSE Ends(<<finished>>,
                  Done(fr, calls, EscalationResult(urgency_result, None)))

\* the lines _handle_multi_intent writes for result.get('tickets', [])[:5]
RECURSIVE TicketLines(_)
TicketLines(rows) ==
    IF rows = <<>> THEN ""
    ELSE "  * Ticket #" \o ToString(rows[1].id) \o ": " \o rows[1].issue
         \o " [" \o rows[1].status \o "]\n" \o TicketLines(Tail(rows))

\* the response of _handle_multi_intent over its (label, Result) pairs
RECURSIVE MultiResponse(_)
MultiResponse(results) ==
    IF results = <<>> THEN ""
    ELSE LET action_type == results[1][1]
             result == results[1][2]
         IN  (IF ~Succeeded(result) THEN ""
              ELSE IF action_type = "update_email"
              THEN "[ok] Email updated successfully\n\n"
              ELSE IF action_type = "get_history"
              THEN "[ok] Ticket History Retrieved:\n"
                   \o "  Total Tickets: " \o ToString(result.ticket_count) \o "\n"
                   \o TicketLines(SubSeq(Get(result, "tickets", <<>>), 1,
                          IF Len(Get(result, "tickets", <<>>)) < 5
                          THEN Len(Get(result, "tickets", <<>>)) ELSE 5))
                   \o "\n"
              ELSE "")
             \o MultiResponse(Tail(results))

\* the handler issuing the update again when it failed
MutMultiRetryUpdate(fr, customer_id, calls, update_result) ==
    IF ~Succeeded(update_result)
    THEN Goto(fr, "multi_intent", EmptyDict, calls)
    ELSE Goto(fr, "multi_intent_2",
              [customer_id |-> customer_id,
               results |-> <<<<"update_email", update_result>>>>], calls)

\* the handler returning the failed Result of the update as the others do
MutMultiFailFast(fr, customer_id, calls, update_result) ==
    IF ~Succeeded(update_result)
    THEN Done(fr, calls, update_result)
    ELSE Goto(fr, "multi_intent_2",
              [customer_id |-> customer_id,
               results |-> <<<<"update_email", update_result>>>>], calls)

\* _handle_multi_intent after update_customer returned: the pair is recorded
\* and the handler goes on, whatever the Result
MultiAfterUpdate(fr, customer_id, calls, update_result) ==
    Goto(fr, "multi_intent_2",
         [customer_id |-> customer_id,
          results |-> <<<<"update_email", update_result>>>>], calls)

\* _handle_multi_intent up to the call of the data agent for the update-email
\* sub-task, or to the next sub-task when the query has no such sub-task
MultiUpdateBefore(fr) ==
    LET query_lower == Lower(fr.query)
        pattern == Info("Pattern: MULTI-INTENT (Parallel Tasks)")
        email_match == EmailSearch(fr.query)
        extracted == CHOOSE x \in {extract_customer_id(fr.query, fr.context)} : TRUE
        customer_id == IF extracted.raised THEN None ELSE extracted.value
    IN  IF extracted.raised
        THEN Ends(<<pattern>>, Escaped(fr, fr.calls))
        ELSE IF ~Truthy(customer_id)
        THEN Ends(<<pattern>>,
                  Done(fr, fr.calls,
                       [success |-> FALSE,
                        error |-> "Customer ID required for multi-intent queries"]))
        ELSE IF /\ Contains(query_lower, "update")
                /\ Contains(query_lower, "email")
                /\ email_match # None
        THEN Calls(<<pattern, Info("-> CustomerDataAgent: update_customer(email="
                                   \o email_match[1] \o ")")>>,
                   "CustomerDataAgent",
                   [action |-> "update_customer", customer_id |-> customer_id,
                    data |-> [email |-> email_match[1]]])
        ELSE Ends(<<pattern>>,
                  Goto(fr, "multi_intent_2",
                       [customer_id |-> customer_id, results |-> <<>>], fr.calls))

\* _handle_multi_intent from the return of the update to the end of the
\* update-email sub-task
MultiUpdateAfter(fr, task, r, env) ==
    LET calls == Append(fr.calls, CallRec("CustomerDataAgent", task, r, env))
    IN  IF r.raised
        THEN Ends(<<>>, Escaped(fr, calls))
        ELSE Ends(<<Info("<- CustomerDataAgent: Email update complete")>>,
                  MultiAfterUpdate(fr, task.customer_id, calls, r.result))

\* the Result reporting success only when every sub-task succeeded
MutMultiResultAllOk(results) ==
    [success |-> \A i \in DOMAIN results : Succeeded(results[i][2]),
     response |-> "Multi-Action Request Processed:\n\n" \o MultiResponse(results),
     results |-> results]

\* the Result _handle_multi_intent returns
MultiResult(results) ==
    [success |-> TRUE,
     response |-> "Multi-Action Request Processed:\n\n" \o MultiResponse(results),
     results |-> results]

MutMultiHistoryAlways(fr) ==
    Calls(<<Info("-> CustomerDataAgent: get_customer_history("
                 \o PyStr(fr.loc.customer_id) \o ")")>>,
          "CustomerDataAgent",
          [action |-> "get_customer_history", customer_id |-> fr.loc.customer_id])

\* _handle_multi_intent from the show-history sub-task up to the call of the
\* data agent, or to the return when the query has no such sub-task
MultiHistoryBefore(fr) ==
    LET query_lower == Lower(fr.query)
        customer_id == fr.loc.customer_id
    IN  IF /\ Contains(query_lower, "show")
           /\ Contains(query_lower, "history") \/ Contains(query_lower, "tickets")
        THEN Calls(<<Info("-> CustomerDataAgent: get_customer_history("
                          \o PyStr(customer_id) \o ")")>>,
                   "CustomerDataAgent",
                   [action |-> "get_customer_history", customer_id |-> customer_id])
        ELSE Ends(<<Info("[ok] Multi-intent query completed successfully")>>,
                  Done(fr, fr.calls, MultiResult(fr.loc.results)))

\* _handle_multi_intent from the return of the history call to the return
MultiHistoryAfter(fr, task, r, env) ==
    LET calls == Append(fr.calls, CallRec("CustomerDataAgent", task, r, env))
        results == Append(fr.loc.results, <<"get_history", r.result>>)
    IN  IF r.raised
        THEN Ends(<<>>, Escaped(fr, calls))
        ELSE Ends(<<Info("<- CustomerDataAgent: Found "
                         \o ToString(Get(r.result, "ticket_count", 0)) \o " tickets"),
                    Info("[ok] Multi-intent query completed successfully")>>,
                  IF Succeeded(r.result) /\ "ticket_count" \notin DOMAIN r.result
                  THEN Escaped(fr, calls)
                  ELSE Done(fr, calls, MultiResult(results)))

\* the positions of a frame inside the handlers
HandlerPositions == {"simple_data_query", "coordinated_support", "coordinated_support_2",
                     "complex_analysis", "escalation", "escalation_2",
                     "multi_intent", "multi_intent_2"}

\* the handler at fr.pc up to its next specialist call or its end
HandlerBefore(fr) ==
    CASE fr.pc = "simple_data_query" -> SimpleQueryBefore(fr)
      [] fr.pc = "coordinated_support" -> CoordinatedGetBefore(fr)
      [] fr.pc = "coordinated_support_2" -> CoordinatedSupportBefore(fr)
      [] fr.pc = "complex_analysis" -> ComplexAnalysisBefore(fr)
      [] fr.pc = "escalation" -> EscalationAssessBefore(fr)
      [] fr.pc = "escalation_2" -> EscalationGetBefore(fr)
      [] fr.pc = "multi_intent" -> MultiUpdateBefore(fr)
      [] fr.pc = "multi_intent_2" -> MultiHistoryBefore(fr)

\* the handler at fr.pc from the return r of its specialist call
HandlerAfter(fr, task, r, env) ==
    CASE fr.pc = "simple_data_query" -> SimpleQueryAfter(fr, task, r, env)
      [] fr.pc = "coordinated_support" -> CoordinatedGetAfter(fr, task, r, env)
      [] fr.pc = "coordinated_support_2" -> CoordinatedSupportAfter(fr, task, r, env)
      [] fr.pc = "complex_analysis" -> ComplexAnalysisAfter(fr, task, r, env)
      [] fr.pc = "escalation" -> EscalationAssessAfter(fr, task, r, env)
      [] fr.pc = "escalation_2" -> EscalationGetAfter(fr, task, r, env)
      [] fr.pc = "multi_intent" -> MultiUpdateAfter(fr, task, r, env)
      [] fr.pc = "multi_intent_2" -> MultiHistoryAfter(fr, task, r, env)

\* one host running the handler at position pc through its specialist call,
\* with nothing else running in between
HandlerStep(p, pc) ==
    /\ p \in hosts
    /\ q[p].pc = pc
    /\ \E before \in {HandlerBefore(q[p])} :
        IF ~before.call
        THEN /\ logs' = LogsAfter(before.router, <<>>, <<>>)
             /\ q' = [q EXCEPT ![p] = before.frame]
             /\ UNCHANGED <<customers, tickets>>
        ELSE \E env \in SpecialistEnvs(before.agent, before.task, customers, tickets) :
             \E r \in {SpecialistProcess(before.agent, before.task,
                                         customers, tickets, env)} :
             \E after \in {HandlerAfter(q[p], before.task, r, env)} :
                /\ logs' = LogsAfter(before.router \o after.router,
                                     IF before.agent = "CustomerDataAgent"
                                     THEN r.log ELSE <<>>,
                                     IF before.agent = "SupportAgent"
                                     THEN r.log ELSE <<>>)
                /\ customers' = r.customers
                /\ tickets' = r.tickets
                /\ q' = [q EXCEPT ![p] = after.frame]
    /\ UNCHANGED <<hosts, served>>

\* _handle_simple_query
HandleSimpleQuery(p) == HandlerStep(p, "simple_data_query")
\* _handle_coordinated_support, step 1: the customer context
CoordinatedGetCustomer(p) == HandlerStep(p, "coordinated_support")
\* _handle_coordinated_support, step 2: the support response
CoordinatedProvideSupport(p) == HandlerStep(p, "coordinated_support_2")
\* _handle_complex_analysis
HandleComplexAnalysis(p) == HandlerStep(p, "complex_analysis")
\* _handle_escalation, step 1: the urgency assessment
EscalationAssessUrgency(p) == HandlerStep(p, "escalation")
\* _handle_escalation, step 2: the customer context, if an id is available
EscalationGetCustomer(p) == HandlerStep(p, "escalation_2")
\* _handle_multi_intent up to the end of the update-email sub-task
MultiIntentUpdateEmail(p) == HandlerStep(p, "multi_intent")
\* _handle_multi_intent from the show-history sub-task to the return
MultiIntentGetHistory(p) == HandlerStep(p, "multi_intent_2")

Next ==
    \E p \in Procs :
        \/ ProcessQuery(p)
        \/ HandleSimpleQuery(p)
        \/ CoordinatedGetCustomer(p)
        \/ CoordinatedProvideSupport(p)
        \/ HandleComplexAnalysis(p)
        \/ EscalationAssessUrgency(p)
        \/ EscalationGetCustomer(p)
        \/ MultiIntentUpdateEmail(p)
        \/ MultiIntentGetHistory(p)

Spec == Init /\ [][Next]_vars

(***************************************************************************)
(* A host calling the process method of a specialist agent itself          *)
(***************************************************************************)
\* the task dicts handed to CustomerDataAgent.process
DataTasks ==
    { [action |-> "get_customer", customer_id |-> Some(1)],
      [action |-> "get_customer", customer_id |-> Some(9)],
      [action |-> "get_customer"],
      [action |-> "list_customers"],
      [action |-> "list_customers", status |-> Some("active"), limit |-> 1],
      [action |-> "update_customer", customer_id |-> Some(2),
       data |-> [email |-> "bob@new.example.com"]],
      [action |-> "update_customer", customer_id |-> Some(2), data |-> [tier |-> "gold"]],
      [action |-> "update_customer", customer_id |-> Some(9), data |-> [name |-> "Bo Ray"]],
      [action |-> "update_customer", customer_id |-> Some(2)],
      [action |-> "get_customer_history", customer_id |-> Some(1)],
      [action |-> "get_customer_history", customer_id |-> Some(9)],
      [action |-> "get_customers_with_open_tickets"],
      [action |-> "delete_customer", customer_id |-> Some(1)],
      [customer_id |-> Some(1)] }

\* the task dicts handed to SupportAgent.process
SupportTasks ==
    { [action |-> "create_ticket", customer_id |-> Some(1), issue |-> "Printer jam",
       priority |-> "urgent"],
      [action |-> "create_ticket", customer_id |-> Some(2), issue |-> "Late invoice",
       priority |-> "high"],
      [action |-> "create_ticket", customer_id |-> Some(4), issue |-> "Lost badge"],
      [action |-> "create_ticket", customer_id |-> Some(9), issue |-> "No access",
       priority |-> "urgent"],
      [action |-> "provide_support", query |-> "Please cancel my plan",
       customer_data |-> [success |-> TRUE, customer |-> SeedCustomers[1]]],
      [action |-> "provide_support", query |-> "I need help"],
      [action |-> "assess_urgency", query |-> "The site is DOWN, refund me"],
      [action |-> "assess_urgency", query |-> "a broken link"],
      [action |-> "assess_urgency"],
      [action |-> "get_high_priority_tickets"],
      [action |-> "get_high_priority_tickets", customer_ids |-> Some({1})],
      [action |-> "close_ticket", ticket_id |-> 1],
      [issue |-> "no action"] }

\* the times CURRENT_TIMESTAMP may give a new ticket: that of the newest
\* ticket (the same second) or a later one
InsertTimes(rows) ==
    LET newest == IF rows = <<>> THEN 0
                  ELSE CHOOSE m \in {rows[i].created_at : i \in DOMAIN rows} :
                          \A i \in DOMAIN rows : rows[i].created_at <= m
    IN  {newest, newest + 1}

\* the frame after a specialist's process returned to the host
Answered(agent, task, r, env) ==
    Frame("answered", "", None, "", [agent |-> agent, task |-> task],
          <<CallRec(agent, task, r, env)>>, Some(r.result))

\* data_agent.process(task), called by the host
DataAgentProcess(p) ==
    /\ p \in hosts
    /\ q[p].pc \in {"idle", "done", "answered"}
    /\ served < MaxQueries
    /\ \E task \in DataTasks :
        \E env \in DataEnvs(task, customers, tickets) :
        \E r \in {data_agent_process(task, customers, env)} :
            /\ customers' = r.customers
            /\ logs' = LogsAfter(<<>>, r.log, <<>>)
            /\ q' = [q EXCEPT ![p] = Answered("CustomerDataAgent", task, r, env)]
    /\ served' = served + 1
    /\ UNCHANGED <<tickets, hosts>>

\* support_agent.process(task), called by the host
SupportAgentProcess(p) ==
    /\ p \in hosts
    /\ q[p].pc \in {"idle", "done", "answered"}
    /\ served < MaxQueries
    /\ \E task \in SupportTasks :
        \E env \in SupportEnvs(task, customers, tickets) :
        \E now \in InsertTimes(tickets) :
        \E r \in {support_agent_process(task, customers, tickets, now, env)} :
            /\ tickets' = r.tickets
            /\ logs' = LogsAfter(<<>>, <<>>, r.log)
            /\ q' = [q EXCEPT ![p] = Answered("SupportAgent", task, r, env)]
    /\ served' = served + 1
    /\ UNCHANGED <<customers, hosts>>

\* the host calls any of the three process methods
NextAgents ==
    \/ Next
    \/ \E p \in Procs :
        \/ DataAgentProcess(p)
        \/ SupportAgentProcess(p)

SpecAgents == Init /\ [][NextAgents]_vars

(***************************************************************************)
(* The classifier on its own, over texts composed of fragments             *)
(***************************************************************************)
\* fragments a composed text holds at most
MaxWords == 2

Fragments ==
    { "get customer 5", "Customer Information", "show customer", "help me",
      "support", "upgrade", "upgrading", "an issue", "charged twice",
      "refund immediately", "URGENT", "emergency", "update", "Show", "create",
      "list", "all customers", "high-priority tickets", "open tickets",
      "active customers", "cancel", "hello", "id 7", "now" }

RECURSIVE JoinWords(_)
JoinWords(ws) ==
    IF Len(ws) = 1 THEN ws[1] ELSE ws[1] \o " " \o JoinWords(Tail(ws))

\* the texts handed to _analyze_intent
Phrasings ==
    {JoinWords(ws) : ws \in UNION {[1..n -> Fragments] : n \in 1..MaxWords}}

InitText ==
    /\ customers = [c \in {} |-> SeedCustomers[c]]
    /\ tickets = <<>>
    /\ logs = InitLogs
    /\ hosts = {1}
    /\ \E text \in Phrasings :
        q = [p \in Procs |->
                IF p \in hosts
                THEN Frame("text", text, None, "", EmptyDict, <<>>, None)
                ELSE Idle]
    /\ served = 0

\* intent = self._analyze_intent(query)
Classify(p) ==
    /\ p \in hosts
    /\ q[p].pc = "text"
    /\ q' = [q EXCEPT ![p] =
                Frame("classified", q[p].query, None, analyze_intent(q[p].query),
                      EmptyDict, <<>>, None)]
    /\ UNCHANGED <<customers, tickets, logs, hosts, served>>

\* _analyze_intent called on the same text once more
Reclassify(p) ==
    /\ p \in hosts
    /\ q[p].pc = "classified"
    /\ q' = [q EXCEPT ![p] =
                Frame("reclassified", q[p].query, None, q[p].intent,
                      [again |-> analyze_intent(q[p].query)], <<>>, None)]
    /\ UNCHANGED <<customers, tickets, logs, hosts, served>>

NextText ==
    \E p \in Procs :
        \/ Classify(p)
        \/ Reclassify(p)

SpecText == InitText /\ [][NextText]_vars

(***************************************************************************)
(* The urgency assessment on its own, over texts composed of fragments     *)
(***************************************************************************)
UrgencyFragments ==
    { "URGENT", "immediately", "critical", "emergency", "downtime", "Charged Twice",
      "refund", "security", "breach", "an issue", "problem", "Not Working",
      "broken", "unhelpful", "hello", "charged", "working" }

\* the texts handed to _assess_urgency
UrgencyPhrasings ==
    {JoinWords(ws) : ws \in UNION {[1..n -> UrgencyFragments] : n \in 1..MaxWords}}

InitUrgency ==
    /\ customers = [c \in {} |-> SeedCustomers[c]]
    /\ tickets = <<>>
    /\ logs = InitLogs
    /\ hosts = {1}
    /\ \E text \in UrgencyPhrasings :
        q = [p \in Procs |->
                IF p \in hosts
                THEN Frame("query", text, None, "", EmptyDict, <<>>, None)
                ELSE Idle]
    /\ served = 0

\* self._assess_urgency({'action': 'assess_urgency', 'query': query})
AssessUrgency(p) ==
    /\ p \in hosts
    /\ q[p].pc = "query"
    /\ q' = [q EXCEPT ![p] =
                Frame("assessed", q[p].query, None, "", EmptyDict, <<>>,
                      Some(assess_urgency([action |-> "assess_urgency",
                                           query |-> q[p].query])))]
    /\ UNCHANGED <<customers, tickets, logs, hosts, served>>

NextUrgency == \E p \in Procs : AssessUrgency(p)

SpecUrgency == InitUrgency /\ [][NextUrgency]_vars

(***************************************************************************)
(* The customer-id resolution on its own                                   *)
(***************************************************************************)
IdFragments ==
    { "customer 5", "ID 7", "id:3", "Customer12", "valid 8", "customers 6",
      "customer 007", "customer id 4", "hello", "42", "customer 0", "id\t19" }

\* the texts handed to _extract_customer_id
IdPhrasings ==
    {JoinWords(ws) : ws \in UNION {[1..n -> IdFragments] : n \in 1..MaxWords}}
    \cup {OverlongIdText}

InitExtract ==
    /\ customers = [c \in {} |-> SeedCustomers[c]]
    /\ tickets = <<>>
    /\ logs = InitLogs
    /\ hosts = {1}
    /\ \E text \in IdPhrasings, context \in Contexts :
        q = [p \in Procs |->
                IF p \in hosts
                THEN Frame("query", text, context, "", EmptyDict, <<>>, None)
                ELSE Idle]
    /\ served = 0

\* customer_id = self._extract_customer_id(query, context)
ExtractCustomerId(p) ==
    /\ p \in hosts
    /\ q[p].pc = "query"
    /\ \E extracted \in {extract_customer_id(q[p].query, q[p].context)} :
        q' = [q EXCEPT ![p] =
                IF extracted.raised
                THEN Escaped(q[p], <<>>)
                ELSE Frame("extracted", q[p].query, q[p].context, "",
                           [customer_id |-> extracted.value], <<>>, None)]
    /\ UNCHANGED <<customers, tickets, logs, hosts, served>>

NextExtract == \E p \in Procs : ExtractCustomerId(p)

SpecExtract == InitExtract /\ [][NextExtract]_vars

(***************************************************************************)
(* The urgency assessment of the texts the classifier routes to the        *)
(* Escalation pattern                                                      *)
(***************************************************************************)
\* _handle_escalation, step 1, on a text classified as escalation
AssessEscalated(p) ==
    /\ p \in hosts
    /\ q[p].pc = "classified"
    /\ q[p].intent = "escalation"
    /\ q' = [q EXCEPT ![p] =
                Frame("escalated", q[p].query, None, q[p].intent, EmptyDict, <<>>,
                      Some(assess_urgency([action |-> "assess_urgency",
                                           query |-> q[p].query])))]
    /\ UNCHANGED <<customers, tickets, logs, hosts, served>>

NextEscalate ==
    \E p \in Procs :
        \/ Classify(p)
        \/ AssessEscalated(p)

SpecEscalate == InitText /\ [][NextEscalate]_vars

(***************************************************************************)
(* The support reply on its own                                            *)
(***************************************************************************)
SupportFragments ==
    { "Upgrade", "upgrading", "CANCEL my plan", "cancellation", "Refund", "charged",
      "Help", "unhelpful", "support", "hello", "" }

\* the texts handed to _provide_support
SupportPhrasings ==
    {JoinWords(ws) : ws \in UNION {[1..n -> SupportFragments] : n \in 1..MaxWords}}

\* the customer_data of the task: absent, the Result of a get_customer that
\* found the customer or did not, a dict without name
CustomerDatas ==
    { None,
      Some([success |-> TRUE, customer |-> SeedCustomers[1]]),
      Some([success |-> TRUE, customer |-> SeedCustomers[2]]),
      Some([success |-> FALSE, error |-> "Customer 9 not found"]),
      Some([success |-> TRUE, customer |-> [id |-> 7]]) }

\* the task dict of a query and a customer_data
SupportTask(query, customer_data) ==
    IF customer_data = None
    THEN [action |-> "provide_support", query |-> query]
    ELSE [action |-> "provide_support", query |-> query,
          customer_data |-> customer_data[1]]

InitSupport ==
    /\ customers = [c \in {} |-> SeedCustomers[c]]
    /\ tickets = <<>>
    /\ logs = InitLogs
    /\ hosts = {1}
    /\ \E text \in SupportPhrasings, customer_data \in CustomerDatas :
        q = [p \in Procs |->
                IF p \in hosts
                THEN Frame("query", text, None, "",
                           [customer_data |-> customer_data], <<>>, None)
                ELSE Idle]
    /\ served = 0

\* self._provide_support(task)
ProvideSupport(p) ==
    /\ p \in hosts
    /\ q[p].pc = "query"
    /\ q' = [q EXCEPT ![p] =
                Frame("replied", q[p].query, None, "", q[p].loc, <<>>,
                      Some(provide_support(SupportTask(q[p].query,
                                                       q[p].loc.customer_data))))]
    /\ UNCHANGED <<customers, tickets, logs, hosts, served>>

NextSupport == \E p \in Procs : ProvideSupport(p)

SpecSupport == InitSupport /\ [][NextSupport]_vars

(***************************************************************************)
(* The store operations on their own: a host calling MCPServer directly,   *)
(* any sequence of up to MaxOps calls.  The operations that only read are  *)
(* represented by get_customers_with_open_tickets.                         *)
(***************************************************************************)
MaxOps == 3

\* the tickets table when the server is constructed: the seed, or the seed
\* with the last ticket closed
StoreSeeds ==
    { SeedTickets, [SeedTickets EXCEPT ![6].status = "closed"] }

\* the customer_id arguments of the calls
StoreIds == {Some(2), Some(9)}

\* the data arguments of update_customer
UpdateDatas ==
    { [email |-> "bob@new.example.com"],
      [name |-> "Bo Ray", status |-> "disabled"],
      [email |-> "b@x.io", foo |-> "y"],
      [tier |-> "gold"],
      EmptyDict }

\* the priority arguments of create_ticket
TicketPriorities == {"high", "urgent"}

InitOps ==
    /\ \E ids \in InitialCustomerSets, seed \in StoreSeeds :
        /\ customers = [c \in ids |-> SeedCustomers[c]]
        /\ tickets = TicketsOf(ids, seed)
    /\ logs = InitLogs
    /\ hosts = {1}
    /\ q = [p \in Procs |-> Idle]
    /\ served = 0

\* the frame after a store operation returned or raised
Stored(op, args, out) ==
    Frame(IF out.raised THEN "raised" ELSE "stored", "", None, "",
          [op |-> op, args |-> args], <<>>,
          IF out.raised THEN None ELSE Some(out.value))

\* mcp_server.update_customer(customer_id, data)
StoreUpdateCustomer(p) ==
    /\ p \in hosts
    /\ served < MaxOps
    /\ \E customer_id \in StoreIds, data \in UpdateDatas, fault \in Faults :
        \E r \in {mcp_update_customer(customers, customer_id, data, fault)} :
            /\ customers' = r.customers
            /\ q' = [q EXCEPT ![p] =
                        Stored("update_customer",
                               [customer_id |-> customer_id, data |-> data,
                                fault |-> fault], r.out)]
    /\ served' = served + 1
    /\ UNCHANGED <<tickets, logs, hosts>>

\* mcp_server.create_ticket(customer_id, issue, priority)
StoreCreateTicket(p) ==
    /\ p \in hosts
    /\ served < MaxOps
    /\ \E customer_id \in StoreIds, priority \in TicketPriorities, fault \in Faults :
        \E now \in InsertTimes(tickets) :
        \E r \in {mcp_create_ticket(customers, tickets, customer_id, "Late invoice",
                                    priority, now, fault)} :
            /\ tickets' = r.tickets
            /\ q' = [q EXCEPT ![p] =
                        Stored("create_ticket",
                               [customer_id |-> customer_id, priority |-> priority,
                                fault |-> fault], r.out)]
    /\ served' = served + 1
    /\ UNCHANGED <<customers, logs, hosts>>

\* mcp_server.get_customers_with_open_tickets()
StoreOpenTickets(p) ==
    /\ p \in hosts
    /\ served < MaxOps
    /\ \E fault \in Faults, rows \in OpenTicketOrders(customers, tickets) :
        q' = [q EXCEPT ![p] =
                Stored("get_customers_with_open_tickets", [fault |-> fault],
                       mcp_get_customers_with_open_tickets(rows, fault))]
    /\ served' = served + 1
    /\ UNCHANGED <<customers, tickets, logs, hosts>>

NextOps ==
    \E p \in Procs :
        \/ StoreUpdateCustomer(p)
        \/ StoreCreateTicket(p)
        \/ StoreOpenTickets(p)

SpecOps == InitOps /\ [][NextOps]_vars

(***************************************************************************)
(* Two host threads calling process_query on the same RouterAgent          *)
(*                                                                         *)
(* A thread is interrupted between any two accesses to what the threads    *)
(* share: the logs lists of the three agents and the store.  One append    *)
(* to a logs list is one step, and so is one call of an MCPServer method:  *)
(* each opens its own connection, the handlers write nothing but the       *)
(* email of a customer, and no statement of a method reads what another    *)
(* statement of it wrote, so the statements of one method see the store    *)
(* as one statement would.  All else a handler does is on its locals.      *)
(***************************************************************************)
\* the calls the two threads make: (query, context)
ConcQueries ==
    { <<"Show customer 2", None>>,
      <<"update my email to new@x.io and list it", Some([customer_id |-> 2])>>,
      <<"hello there", None>> }

\* a log that keeps its newest entry first
MutLoggedNewestFirst(log, entry) == <<entry>> \o log

\* Agent.log: self.logs.append(log_entry)
Logged(log, entry) == Append(log, entry)

\* entries a call is about to log to the logs of agent
Pending(agent, entries) ==
    [i \in DOMAIN entries |-> [agent |-> agent, entry |-> entries[i]]]

\* a process_query call of a thread: at is where the call stands in the code
\* (the position it goes on from once todo is logged, or the position of
\* the specialist call it is about to make), todo the entries it is about to
\* log, call the specialist call it makes once todo is logged (None or
\* Some), wrote the entries it logged with the index each was put at, seen
\* the store as it was at its first call of the data agent (None or Some)
InFlight(pc, at, todo, call, wrote, seen) ==
    Frame(pc, at.query, at.context, at.intent,
          [at |-> at, todo |-> todo, call |-> call, wrote |-> wrote, seen |-> seen],
          at.calls, IF pc = "done" THEN at.ret ELSE None)

\* the call run on, on its locals alone, to its next access to the logs or
\* the store, or to its end
RECURSIVE Settle(_, _, _, _, _)
Settle(at, todo, call, wrote, seen) ==
    IF todo # <<>> THEN InFlight("logging", at, todo, call, wrote, seen)
    ELSE IF call # None THEN InFlight("calling", at, todo, call, wrote, seen)
    ELSE IF at.pc \in HandlerPositions
    THEN LET before == CHOOSE x \in {HandlerBefore(at)} : TRUE
         IN  IF before.call
             THEN Settle(at,
                         Pending("RouterAgent", before.router)
                         \o Pending(before.agent,
                                    <<ProcessingEntry(Get(before.task, "action", "None"))>>),
                         Some([agent |-> before.agent, task |-> before.task]),
                         wrote, seen)
             ELSE Settle(before.frame, Pending("RouterAgent", before.router),
                         None, wrote, seen)
    ELSE InFlight(at.pc, at, todo, call, wrote, seen)

InitConc ==
    /\ customers = SeedCustomers
    /\ tickets = SeedTickets
    /\ logs = InitLogs
    /\ hosts = Procs
    /\ q = [p \in Procs |-> Idle]
    /\ served = 0

\* a thread calls process_query and logs the first entry
ConcProcessQuery(p) ==
    /\ p \in hosts
    /\ q[p].pc = "idle"
    /\ \E input \in ConcQueries :
        \E entries \in {Received(input[1], input[2])} :
            /\ logs' = [logs EXCEPT !["RouterAgent"] = Logged(@, entries[1])]
            /\ q' = [q EXCEPT ![p] =
                        Settle(Dispatched(input[1], input[2]),
                               Pending("RouterAgent", Tail(entries)), None,
                               <<[agent |-> "RouterAgent", entry |-> entries[1],
                                  index |-> Len(logs["RouterAgent"]) + 1]>>,
                               None)]
    /\ served' = served + 1
    /\ UNCHANGED <<customers, tickets, hosts>>

\* a thread logs its next entry
ConcLog(p) ==
    /\ p \in hosts
    /\ q[p].pc = "logging"
    /\ LET fl == q[p].loc
           next == fl.todo[1]
       IN  /\ logs' = [logs EXCEPT ![next.agent] = Logged(@, next.entry)]
           /\ q' = [q EXCEPT ![p] =
                       Settle(fl.at, Tail(fl.todo), fl.call,
                              Append(fl.wrote,
                                     [agent |-> next.agent, entry |-> next.entry,
                                      index |-> Len(logs[next.agent]) + 1]),
                              fl.seen)]
    /\ UNCHANGED <<customers, tickets, hosts, served>>

\* the specialist a thread called makes its call of the store, or computes
\* its Result without one
ConcCall(p) ==
    /\ p \in hosts
    /\ q[p].pc = "calling"
    /\ LET fl == q[p].loc
           agent == fl.call[1].agent
           task == fl.call[1].task
       IN  \E env \in SpecialistEnvs(agent, task, customers, tickets) :
           \E r \in {SpecialistProcess(agent, task, customers, tickets, env)} :
           \E after \in {HandlerAfter(fl.at, task, r, env)} :
               /\ customers' = r.customers
               /\ tickets' = r.tickets
               /\ q' = [q EXCEPT ![p] =
                           Settle(after.frame,
                                  Pending(agent, <<r.log[2]>>)
                                  \o Pending("RouterAgent", after.router),
                                  None, fl.wrote,
                                  IF fl.seen = None /\ agent = "CustomerDataAgent"
                                  THEN Some([customers |-> customers,
                                             tickets |-> tickets])
                                  ELSE fl.seen)]
    /\ UNCHANGED <<logs, hosts, served>>

NextConc == \E p \in Procs : ConcProcessQuery(p) \/ ConcLog(p) \/ ConcCall(p)

SpecConc == InitConc /\ [][NextConc]_vars

\* a run of process_query with no other call running: the frame it reached,
\* the entries it logged to each logs list, and the store it left
Ran(frame, router, data, support, cs, ts) ==
    [frame |-> frame, router |-> router, data |-> data, support |-> support,
     customers |-> cs, tickets |-> ts]

\* the run o taken on through the handler position it stands at, if it
\* stands at one: the runs it can become
StepAlone(o) ==
    IF o.frame.pc \notin HandlerPositions THEN {o}
    ELSE LET before == CHOOSE x \in {HandlerBefore(o.frame)} : TRUE
         IN  IF ~before.call
             THEN {Ran(before.frame, o.router \o before.router, o.data, o.support,
                       o.customers, o.tickets)}
             ELSE {LET r == CHOOSE x \in {SpecialistProcess(before.agent, before.task,
                                              o.customers, o.tickets, env)} : TRUE
                       after == CHOOSE x \in {HandlerAfter(o.frame, before.task, r, env)} :
                                    TRUE
                   IN  Ran(after.frame,
                           o.router \o before.router \o after.router,
                           o.data \o (IF before.agent = "CustomerDataAgent"
                                      THEN r.log ELSE <<>>),
                           o.support \o (IF before.agent = "SupportAgent"
                                         THEN r.log ELSE <<>>),
                           r.customers, r.tickets) :
                   env \in SpecialistEnvs(before.agent, before.task,
                                          o.customers, o.tickets)}

\* process_query(query, context) run alone against the store (cs, ts); no
\* handler stands at more than two positions
RunAlone(query, context, cs, ts) ==
    UNION {StepAlone(o) :
             o \in StepAlone(Ran(Dispatched(query, context), Received(query, context),
                                 <<>>, <<>>, cs, ts))}

(***************************************************************************)
(* Vocabulary of the properties                                            *)
(***************************************************************************)
\* the lower-cased text t contains one of the keywords
HasAny(t, keywords) == \E k \in keywords : Contains(t, k)

\* the elements of a sequence
Range(seq) == {seq[i] : i \in DOMAIN seq}

\* the rules 2 to 6 of the classifier, in their order
LaterRules(t) ==
    IF AnyIn(t, EscalationWords) THEN "escalation"
    ELSE IF Cardinality({w \in {"update", "show", "get", "create", "list"} :
                            Contains(t, w)}) >= 2
    THEN "multi_intent"
    ELSE IF AnyIn(t, ComplexPhrases) THEN "complex_analysis"
    ELSE IF AnyIn(t, SupportWords) THEN "coordinated_support"
    ELSE "general"

Rule1Positive(t) ==
    HasAny(t, {"get customer", "customer information", "show customer"})
Rule1Negative(t) == HasAny(t, {"help", "support", "upgrade", "issue"})

\* digits among the characters of t
DigitCount(t) == Cardinality({i \in 1..Len(t) : IsDigit(CharAt(t, i))})

\* the lower-cased text t names the id N through 'id N' or 'customer N', and
\* holds no other number
NamesId(t, N) ==
    /\ Contains(t, "id " \o ToString(N)) \/ Contains(t, "customer " \o ToString(N))
    /\ DigitCount(t) = Len(ToString(N))

\* every store call of the frame went through
NoFaults(fr) == \A i \in DOMAIN fr.calls : fr.calls[i].fault = "none"

\* _extract_customer_id returns an id the handlers take as one
Resolvable(fr) ==
    \E e \in {extract_customer_id(fr.query, fr.context)} : ~e.raised /\ Truthy(e.value)

\* neither the context nor the text gives an id
NoIdResolved(fr) == extract_customer_id(fr.query, fr.context) = Returned(None)

\* the text matches both sub-intents of _handle_multi_intent and carries an
\* email address
BothSubIntents(query) ==
    \E t \in {Lower(query)} :
        /\ Contains(t, "update") /\ Contains(t, "email")
        /\ EmailSearch(query) # None
        /\ Contains(t, "show")
        /\ Contains(t, "history") \/ Contains(t, "tickets")

ChargedTwiceQuery == "I've been charged twice, please refund immediately!"
UpgradingQuery == "I'm customer 1 and need help upgrading my account"
UpdateEmailQuery == "Update my email to newemail@test.com and show my ticket history"

(***************************************************************************)
(* Properties                                                              *)
(***************************************************************************)
\* C1: every classified text has exactly one of the six intents, the one of
\* the first matching rule: simple_data_query when the lower-cased text holds
\* one of the three phrases and none of help, support, upgrade and issue,
\* otherwise the intent rules 2 to 6 select in their order (so a text with a
\* phrase and an excluded word is never simple_data_query), and classifying
\* the text a second time gives the same intent.
C1_FirstMatchingRule ==
    \A p \in hosts :
        q[p].pc \in {"classified", "reclassified"} =>
            \E t \in {Lower(q[p].query)} :
                /\ q[p].intent \in Intents
                /\ q[p].intent =
                        IF Rule1Positive(t) /\ ~Rule1Negative(t)
                        THEN "simple_data_query" ELSE LaterRules(t)
                /\ Rule1Positive(t) /\ Rule1Negative(t) =>
                        /\ q[p].intent # "simple_data_query"
                        /\ q[p].intent = LaterRules(t)
                /\ q[p].query = "help me get customer 5" =>
                        q[p].intent = "coordinated_support"
                /\ q[p].pc = "reclassified" => q[p].loc.again = q[p].intent

C1_Witness ==
    \E p \in hosts :
        /\ q[p].pc = "reclassified"
        /\ q[p].query = "help me get customer 5"
        /\ q[p].intent = "coordinated_support"

\* C2 as the spec states it: the charged-twice query with {customer_id: 2} is
\* an escalation whose urgency is high and whose reason cites the keyword
\* 'charged twice'.
C2_ReasonCitesChargedTwice ==
    \A p \in hosts :
        (/\ q[p].pc = "done"
         /\ q[p].query = ChargedTwiceQuery
         /\ q[p].context = Some([customer_id |-> 2])) =>
            /\ q[p].intent = "escalation"
            /\ q[p].ret[1].urgency.urgency = "high"
            /\ Contains(q[p].ret[1].urgency.reason, "charged twice")

\* C2, amended: the charged-twice query with {customer_id: 2} is an
\* escalation that succeeds with urgency high, and the reason cites
\* 'immediately', the first keyword of the high-urgency list the text
\* contains, and not 'charged twice'.
C2_ReasonCitesImmediately ==
    \A p \in hosts :
        (/\ q[p].pc = "done"
         /\ q[p].query = ChargedTwiceQuery
         /\ q[p].context = Some([customer_id |-> 2])) =>
            /\ q[p].intent = "escalation"
            /\ q[p].ret[1].success = TRUE
            /\ q[p].ret[1].urgency.urgency = "high"
            /\ q[p].ret[1].urgency.reason = "Contains high-urgency keyword: immediately"
            /\ ~Contains(q[p].ret[1].urgency.reason, "charged twice")

C2_Witness ==
    \E p \in hosts :
        /\ q[p].pc = "done"
        /\ q[p].query = ChargedTwiceQuery
        /\ q[p].context = Some([customer_id |-> 2])
        /\ q[p].ret[1].urgency.urgency = "high"

\* C3: the upgrading query with {customer_id: 1}, customer 1 in the store and
\* the store answering, is a coordinated_support query that succeeds with a
\* response that begins with a greeting of the stored name and contains
\* 'upgrade'.
C3_UpgradeResponse ==
    \A p \in hosts :
        (/\ q[p].pc = "done"
         /\ q[p].query = UpgradingQuery
         /\ q[p].context = Some([customer_id |-> 1])
         /\ 1 \in DOMAIN customers
         /\ NoFaults(q[p])) =>
            /\ q[p].intent = "coordinated_support"
            /\ Succeeded(q[p].ret[1])
            /\ HasAt(q[p].ret[1].response, 1, "Hello " \o customers[1].name)
            /\ Contains(q[p].ret[1].response, "upgrade")

C3_Witness ==
    \E p \in hosts :
        /\ q[p].pc = "done"
        /\ q[p].query = UpgradingQuery
        /\ q[p].context = Some([customer_id |-> 1])
        /\ q[p].intent = "coordinated_support"
        /\ Len(q[p].calls) = 2
        /\ Succeeded(q[p].ret[1])
        /\ HasAt(q[p].ret[1].response, 1, "Hello Ann Lee! I'm here to help")
        /\ ~Contains(q[p].ret[1].response, "upgrade")

\* C4: a finished simple_data_query call with no context whose text names the
\* id N of a customer in the store made exactly one specialist call, the data
\* agent's get_customer(N), and when the store answered it returned success
\* with a response containing 'ID: N' and with data the data agent's Result.
C4_SimpleQueryResolvesId ==
    \A p \in hosts : \A N \in DOMAIN customers :
        (/\ q[p].pc = "done"
         /\ q[p].intent = "simple_data_query"
         /\ q[p].context = None
         /\ NamesId(Lower(q[p].query), N)) =>
            /\ Len(q[p].calls) = 1
            /\ q[p].calls[1].agent = "CustomerDataAgent"
            /\ q[p].calls[1].task = [action |-> "get_customer", customer_id |-> Some(N)]
            /\ q[p].calls[1].fault = "none" =>
                    /\ q[p].ret[1].success = TRUE
                    /\ Contains(q[p].ret[1].response, "ID: " \o ToString(N) \o "\n")
                    /\ q[p].ret[1].data = q[p].calls[1].result
                    /\ q[p].ret[1].data.customer.id = N

C4_Witness ==
    \E p \in hosts :
        /\ q[p].pc = "done"
        /\ q[p].query = "Get customer information for ID 5"
        /\ q[p].context = None
        /\ Len(q[p].calls) = 1
        /\ Succeeded(q[p].ret[1])
        /\ Contains(q[p].ret[1].response, "ID: 5")

\* C5: a finished multi_intent call with a resolvable id whose text matches
\* both sub-intents and carries an email address made two data-agent calls,
\* update_customer then get_customer_history, and returns a results list of
\* exactly the two pairs ('update_email', r1), ('get_history', r2) in that
\* order, r1 and r2 the Results of the two calls, whether they succeeded or
\* failed.
C5_TwoPairsInOrder ==
    \A p \in hosts :
        (/\ q[p].pc = "done"
         /\ q[p].intent = "multi_intent"
         /\ Resolvable(q[p])
         /\ BothSubIntents(q[p].query)) =>
            /\ Len(q[p].calls) = 2
            /\ q[p].calls[1].task.action = "update_customer"
            /\ q[p].calls[2].task.action = "get_customer_history"
            /\ "results" \in DOMAIN q[p].ret[1]
            /\ q[p].ret[1].results =
                    << <<"update_email", q[p].calls[1].result>>,
                       <<"get_history", q[p].calls[2].result>> >>

C5_Witness ==
    \E p \in hosts :
        /\ q[p].pc = "done"
        /\ q[p].query = UpdateEmailQuery
        /\ q[p].context = Some([customer_id |-> 4])
        /\ Len(q[p].calls) = 2
        /\ ~Succeeded(q[p].calls[1].result)
        /\ Succeeded(q[p].calls[2].result)
        /\ Len(q[p].ret[1].results) = 2

\* C6: in the simple_data_query, coordinated_support and complex_analysis
\* patterns a specialist call that returned a failed Result is the last call
\* of the process_query call, which has returned that Result itself.
C6_FailFast ==
    \A p \in hosts :
        q[p].intent \in {"simple_data_query", "coordinated_support", "complex_analysis"} =>
            \A i \in DOMAIN q[p].calls :
                ~Succeeded(q[p].calls[i].result) =>
                    /\ i = Len(q[p].calls)
                    /\ q[p].pc = "done"
                    /\ q[p].ret = Some(q[p].calls[i].result)

C6_Witness ==
    \E p \in hosts :
        /\ q[p].pc = "done"
        /\ q[p].intent = "coordinated_support"
        /\ Len(q[p].calls) = 1
        /\ q[p].calls[1].task.action = "get_customer"
        /\ ~Succeeded(q[p].calls[1].result)
        /\ q[p].ret = Some(q[p].calls[1].result)

\* C7: a finished multi_intent call with a resolvable id returns success =
\* true and no top-level error; the Result of every call it made, failed or
\* not, is the Result of its pair in results; and when the text asks for the
\* history the history call was made whatever the update returned.
C7_PartialFailuresEmbedded ==
    \A p \in hosts :
        (/\ q[p].pc = "done"
         /\ q[p].intent = "multi_intent"
         /\ Resolvable(q[p])) =>
            /\ q[p].ret[1].success = TRUE
            /\ "error" \notin DOMAIN q[p].ret[1]
            /\ Len(q[p].ret[1].results) = Len(q[p].calls)
            /\ \A i \in DOMAIN q[p].calls :
                    q[p].ret[1].results[i][2] = q[p].calls[i].result
            /\ BothSubIntents(q[p].query) =>
                    /\ Len(q[p].calls) = 2
                    /\ q[p].calls[2].task.action = "get_customer_history"

C7_Witness ==
    \E p \in hosts :
        /\ q[p].pc = "done"
        /\ q[p].intent = "multi_intent"
        /\ Len(q[p].calls) = 2
        /\ ~Succeeded(q[p].calls[1].result)
        /\ ~Succeeded(q[p].calls[2].result)
        /\ q[p].ret[1].success = TRUE

\* C8: the step of a simple_data_query, coordinated_support or multi_intent
\* call for which neither context nor text gives an id returns success =
\* false with an error saying the customer id is required, makes no
\* specialist call (no call recorded, no entry in a specialist's log) and
\* leaves the store as it was.
C8_MissingIdFails ==
    [][\A p \in hosts :
        (/\ q[p].pc \in {"simple_data_query", "coordinated_support", "multi_intent"}
         /\ NoIdResolved(q[p])) =>
            /\ q'[p].pc = "done"
            /\ q'[p].ret[1].success = FALSE
            /\ Contains(q'[p].ret[1].error, "Customer ID required")
            /\ q'[p].calls = <<>>
            /\ customers' = customers
            /\ tickets' = tickets
            /\ logs'["CustomerDataAgent"] = logs["CustomerDataAgent"]
            /\ logs'["SupportAgent"] = logs["SupportAgent"]]_vars

C8_Witness ==
    \E p \in hosts :
        /\ q[p].pc = "done"
        /\ q[p].intent = "multi_intent"
        /\ NoIdResolved(q[p])
        /\ q[p].ret[1].success = FALSE
        /\ q[p].calls = <<>>

\* C9: a process_query call that reached the escalation pattern never ends
\* in an exception; its first specialist call is assess_urgency; when it has
\* returned it returned success = true, it called get_customer after
\* assess_urgency exactly when an id is resolvable, and without a successful
\* get_customer customer_data is null and the response has no customer
\* lines.
C9_EscalationAlwaysSucceeds ==
    \A p \in hosts :
        q[p].intent = "escalation" =>
            /\ q[p].pc # "raised"
            /\ q[p].pc \in {"escalation_2", "done"} =>
                    /\ Len(q[p].calls) >= 1
                    /\ q[p].calls[1].agent = "SupportAgent"
                    /\ q[p].calls[1].task.action = "assess_urgency"
            /\ q[p].pc = "done" =>
                    /\ q[p].ret[1].success = TRUE
                    /\ Len(q[p].calls) = (IF Resolvable(q[p]) THEN 2 ELSE 1)
                    /\ Len(q[p].calls) = 2 =>
                            /\ q[p].calls[2].agent = "CustomerDataAgent"
                            /\ q[p].calls[2].task.action = "get_customer"
                    /\ (Len(q[p].calls) = 1 \/ ~Succeeded(q[p].calls[2].result)) =>
                            /\ q[p].ret[1].customer_data = None
                            /\ ~Contains(q[p].ret[1].response, "Customer: ")
                            /\ ~Contains(q[p].ret[1].response, "Contact: ")

C9_Witness ==
    \E p \in hosts :
        /\ q[p].pc = "raised"
        /\ q[p].intent = "escalation"
        /\ q[p].query = OverlongIdUrgentText
        /\ Len(q[p].calls) = 1
        /\ q[p].calls[1].task.action = "assess_urgency"

\* C10: no process_query call ends in an exception, and a call that has
\* returned returned a Result with a boolean success.
C10_NeverRaises ==
    \A p \in hosts :
        /\ q[p].pc # "raised"
        /\ q[p].pc = "done" =>
                /\ q[p].ret # None
                /\ "success" \in DOMAIN q[p].ret[1]
                /\ q[p].ret[1].success \in BOOLEAN

C10_Witness ==
    \E p \in hosts :
        /\ q[p].pc = "raised"
        /\ q[p].query = OverlongIdText
        /\ q[p].context \in {None, Some(EmptyDict)}
        /\ q[p].calls = <<>>
        /\ q[p].ret = None

\* a Result with exactly one of payload and error: success is a boolean; a
\* success has no 'error' and has at least one payload field; a failure has
\* an 'error' string and no other field
OnePopulated(result) ==
    /\ "success" \in DOMAIN result
    /\ result.success \in BOOLEAN
    /\ result.success =>
            /\ "error" \notin DOMAIN result
            /\ DOMAIN result \ {"success"} # {}
    /\ ~result.success =>
            /\ DOMAIN result = {"success", "error"}
            /\ result.error \in STRING

\* C11: every Result returned by process_query, by CustomerDataAgent.process
\* and by SupportAgent.process, whether the host or the dispatcher called
\* it, has exactly one of payload and error populated.
C11_OneOfPayloadError ==
    \A p \in hosts :
        /\ q[p].ret # None => OnePopulated(q[p].ret[1])
        /\ \A i \in DOMAIN q[p].calls : OnePopulated(q[p].calls[i].result)

C11_Witness ==
    \E p \in hosts :
        /\ q[p].pc = "answered"
        /\ q[p].calls[1].agent = "SupportAgent"
        /\ Get(q[p].calls[1].task, "action", "None") = "create_ticket"
        /\ q[p].calls[1].fault = "connect"
        /\ q[p].ret = Some([success |-> FALSE, error |-> ConnectError])

\* the structured field of each pattern's successful Result
PatternField ==
    [intent \in HandledIntents |->
        CASE intent = "simple_data_query" -> "data"
          [] intent = "coordinated_support" -> "customer_data"
          [] intent = "complex_analysis" -> "customers"
          [] intent = "escalation" -> "urgency"
          [] OTHER -> "results"]

\* C12: every successful Result process_query returned comes from one of the
\* five patterns and holds a 'response' string and the structured field of
\* its pattern.
C12_ResponseOnSuccess ==
    \A p \in hosts :
        (q[p].pc = "done" /\ Succeeded(q[p].ret[1])) =>
            /\ q[p].intent \in HandledIntents
            /\ "response" \in DOMAIN q[p].ret[1]
            /\ q[p].ret[1].response \in STRING
            /\ PatternField[q[p].intent] \in DOMAIN q[p].ret[1]

C12_Witness ==
    \E p \in hosts :
        /\ q[p].pc = "done"
        /\ q[p].intent = "escalation"
        /\ Succeeded(q[p].ret[1])
        /\ Len(q[p].calls) = 2
        /\ ~Succeeded(q[p].calls[2].result)
        /\ HasAt(q[p].ret[1].response, 1, "[!] ESCALATED TICKET")
        /\ q[p].ret[1].urgency = q[p].calls[1].result

\* the log entry reports the outcome the Result carries: a completion mark
\* for a success; for a failure an ERROR entry, the error message or a word
\* of failure
ReportsOutcome(entry, result) ==
    IF Succeeded(result)
    THEN Contains(entry.message, "[ok]")
    ELSE \/ entry.level = "ERROR"
         \/ Contains(entry.message, result.error)
         \/ Contains(Lower(entry.message), "fail")
         \/ Contains(Lower(entry.message), "error")

\* the entries a step appended to the log of the agent
Appended(agent) ==
    {logs'[agent][i] : i \in (Len(logs[agent]) + 1)..Len(logs'[agent])}

\* C13: the step of process_query that returns a Result, success or failure,
\* appends to the RouterAgent's log an entry reporting the outcome of that
\* Result.
C13_EveryResultTraced ==
    [][\A p \in hosts :
        (q'[p] # q[p] /\ q'[p].pc = "done") =>
            \E entry \in Appended("RouterAgent") :
                ReportsOutcome(entry, q'[p].ret[1])]_vars

C13_Witness ==
    \E p \in hosts :
        /\ q[p].pc = "done"
        /\ q[p].intent = "general"
        /\ q[p].ret = Some([success |-> FALSE, error |-> "Unable to determine query intent"])
        /\ logs["RouterAgent"][Len(logs["RouterAgent"])] = Info("Detected intent: general")
        /\ \A a \in Agents : \A i \in DOMAIN logs[a] : logs[a][i].level = "INFO"

\* the host's create_ticket call of the frame named a priority outside low,
\* medium and high for a customer of the store, and the store answered
InvalidPriorityTicket(fr) ==
    /\ fr.pc = "answered"
    /\ fr.loc.agent = "SupportAgent"
    /\ Get(fr.loc.task, "action", "None") = "create_ticket"
    /\ "priority" \in DOMAIN fr.loc.task
    /\ fr.loc.task.priority \notin {"low", "medium", "high"}
    /\ fr.loc.task.customer_id # None
    /\ fr.loc.task.customer_id[1] \in DOMAIN customers
    /\ fr.calls[1].fault = "none"

\* a warning entry of a log
IsWarning(entry) ==
    \/ entry.level \in {"WARNING", "WARN"}
    \/ Contains(Lower(entry.message), "warn")
    \/ Contains(Lower(entry.message), "invalid priority")
    \/ Contains(Lower(entry.message), "defaulting")

\* C14: a create_ticket call with a priority outside low, medium and high for
\* an existing customer succeeds, stores and returns the ticket with priority
\* 'medium', and leaves a warning entry in the log of an agent.
C14_CoercedWithWarning ==
    \A p \in hosts :
        InvalidPriorityTicket(q[p]) =>
            /\ Succeeded(q[p].ret[1])
            /\ q[p].ret[1].priority = "medium"
            /\ tickets # <<>>
            /\ tickets[Len(tickets)].id = q[p].ret[1].ticket_id
            /\ tickets[Len(tickets)].customer_id = q[p].loc.task.customer_id[1]
            /\ tickets[Len(tickets)].priority = "medium"
            /\ \E a \in Agents : \E i \in DOMAIN logs[a] : IsWarning(logs[a][i])

C14_Witness ==
    \E p \in hosts :
        /\ InvalidPriorityTicket(q[p])
        /\ q[p].loc.task.priority = "urgent"
        /\ Succeeded(q[p].ret[1])
        /\ q[p].ret[1].priority = "medium"
        /\ tickets[Len(tickets)].priority = "medium"
        /\ logs["SupportAgent"] =
                InitLogs["SupportAgent"]
                \o <<Info("Processing task: create_ticket"),
                     Info("[ok] Task completed: create_ticket")>>
        /\ logs["RouterAgent"] = InitLogs["RouterAgent"]
        /\ logs["CustomerDataAgent"] = InitLogs["CustomerDataAgent"]

\* a "Pattern: ..." entry, the first thing every pattern handler logs
IsPatternEntry(entry) == HasAt(entry.message, 1, "Pattern: ")

\* C15: the process_query step of a query classified general returns at once
\* success = false with the error 'Unable to determine query intent'; it
\* enters no pattern handler (no handler position, no pattern entry in the
\* router's log), calls no specialist (no call recorded, the specialists' logs
\* as they were) and leaves the store as it was.
C15_GeneralFails ==
    [][\A p \in hosts :
        (q'[p] # q[p] /\ q'[p].intent = "general") =>
            /\ q'[p].pc = "done"
            /\ q'[p].ret = Some([success |-> FALSE,
                                 error |-> "Unable to determine query intent"])
            /\ q'[p].calls = <<>>
            /\ \A entry \in Appended("RouterAgent") : ~IsPatternEntry(entry)
            /\ Appended("CustomerDataAgent") = {}
            /\ Appended("SupportAgent") = {}
            /\ customers' = customers
            /\ tickets' = tickets]_vars

C15_Witness ==
    \E p \in hosts :
        /\ q[p].pc = "done"
        /\ q[p].intent = "general"
        /\ q[p].query = "hello there"
        /\ q[p].context = Some([customer_id |-> 1])
        /\ q[p].ret[1].error = "Unable to determine query intent"
        /\ q[p].calls = <<>>

\* the keyword lists of the urgency policy, in their order
HighOrder == <<"urgent", "immediately", "critical", "emergency", "down",
               "charged twice", "refund", "security", "breach">>
MediumOrder == <<"issue", "problem", "not working", "broken", "help">>

\* k is the first keyword of the ordered list that the text t contains
FirstOfOrder(t, order, k) ==
    \E i \in DOMAIN order :
        /\ order[i] = k
        /\ Contains(t, k)
        /\ \A j \in 1..(i - 1) : ~Contains(t, order[j])

\* the Result of the level names the keyword k as its reason
NamesKeyword(result, level, k) ==
    /\ result.urgency = level
    /\ result.priority = level
    /\ result.reason = "Contains " \o level \o "-urgency keyword: " \o k

\* C16: assess_urgency always returns success = true; when the lower-cased
\* query contains a high-urgency keyword the Result is high/high with the
\* reason naming the first keyword of the high list, in the list's order,
\* that the query contains; otherwise, when it contains a medium-urgency
\* keyword, medium/medium with the first such keyword of the medium list;
\* otherwise low/low with the reason 'General inquiry'.
C16_OrderedFirstMatch ==
    \A p \in hosts :
        q[p].pc = "assessed" =>
            \E t \in {Lower(q[p].query)} : \E result \in {q[p].ret[1]} :
                /\ result.success = TRUE
                /\ DOMAIN result = {"success", "urgency", "priority", "reason"}
                /\ IF \E k \in Range(HighOrder) : Contains(t, k)
                   THEN \E k \in Range(HighOrder) :
                            FirstOfOrder(t, HighOrder, k) /\ NamesKeyword(result, "high", k)
                   ELSE IF \E k \in Range(MediumOrder) : Contains(t, k)
                   THEN \E k \in Range(MediumOrder) :
                            FirstOfOrder(t, MediumOrder, k) /\ NamesKeyword(result, "medium", k)
                   ELSE /\ result.urgency = "low"
                        /\ result.priority = "low"
                        /\ result.reason = "General inquiry"

C16_Witness ==
    \E p \in hosts :
        /\ q[p].pc = "assessed"
        /\ q[p].query = "Charged Twice immediately"
        /\ q[p].ret[1].urgency = "high"
        /\ q[p].ret[1].reason = "Contains high-urgency keyword: immediately"

CarriesId(context) == context # None /\ "customer_id" \in DOMAIN context[1]

\* in the text t, 'id' or 'customer' stands at i, only white space lies
\* between it and d, and d..e is the run of digits that starts at d
IdThenDigits(t, i, d, e) ==
    /\ \/ HasAt(t, i, "id") /\ d >= i + 2
                /\ \A k \in (i + 2)..(d - 1) : CharAt(t, k) \in {" ", "\t", "\n"}
       \/ HasAt(t, i, "customer") /\ d >= i + 8
                /\ \A k \in (i + 8)..(d - 1) : CharAt(t, k) \in {" ", "\t", "\n"}
    /\ d <= e /\ e <= Len(t)
    /\ \A k \in d..e : CharAt(t, k) \in {"0", "1", "2", "3", "4", "5", "6", "7", "8", "9"}
    /\ e = Len(t) \/ CharAt(t, e + 1) \notin {"0", "1", "2", "3", "4", "5", "6", "7", "8", "9"}

\* the text t has a match of '(id|customer) followed by digits'
HasIdMatch(t) ==
    \E i, d, e \in 1..Len(t) : IdThenDigits(t, i, d, e)

\* the digits d..e of the text t belong to its first match
FirstIdMatch(t, d, e) ==
    \E i \in 1..Len(t) :
        /\ IdThenDigits(t, i, d, e)
        /\ \A j \in 1..(i - 1) : \A dd, ee \in 1..Len(t) : ~IdThenDigits(t, j, dd, ee)

\* C18: the resolution of a customer id always yields a value: the context's
\* customer_id when the context carries the key, whatever the text names;
\* otherwise the integer of the digits of the first '(id|customer) followed
\* by digits' match of the lower-cased text; and None when there is neither.
C18_ContextThenText ==
    \A p \in hosts :
        q[p].pc # "query" =>
            /\ q[p].pc = "extracted"
            /\ \E t \in {Lower(q[p].query)} :
                IF CarriesId(q[p].context)
                THEN q[p].loc.customer_id = Some(q[p].context[1]["customer_id"])
                ELSE IF HasIdMatch(t)
                THEN \E d, e \in 1..Len(t) :
                        /\ FirstIdMatch(t, d, e)
                        /\ q[p].loc.customer_id = Some(IntFrom(t, d, e, 0))
                ELSE q[p].loc.customer_id = None

C18_Witness ==
    \E p \in hosts :
        /\ q[p].pc = "raised"
        /\ q[p].query = OverlongIdText
        /\ ~CarriesId(q[p].context)

\* the (service, action) pair of a recorded specialist call
ServiceAction(call) == <<call.agent, Get(call.task, "action", "None")>>

\* the entry a specialist logs when it starts on a task
IsProcessingEntry(entry) == HasAt(entry.message, 1, "Processing task: ")

WroteBy(p) == IF q[p].pc = "idle" THEN <<>> ELSE q[p].loc.wrote

\* the entries among wrote that went to the logs of agent, in their order
RECURSIVE EntriesTo(_, _)
EntriesTo(wrote, agent) ==
    IF wrote = <<>> THEN <<>>
    ELSE LET rest == EntriesTo(SubSeq(wrote, 1, Len(wrote) - 1), agent)
             last == wrote[Len(wrote)]
         IN  IF last.agent = agent THEN Append(rest, last.entry) ELSE rest

\* every entry the call of p logged is still where it was put, as it was put
StillLogged(p) ==
    \A k \in DOMAIN WroteBy(p) :
        LET w == WroteBy(p)[k]
        IN  /\ w.index <= Len(logs[w.agent])
            /\ logs[w.agent][w.index] = w.entry

\* an entry the call of p logs in a step is put after every entry the call
\* logged to the same logs list before
KeepsOrder(p) ==
    LET old == WroteBy(p)
        new == WroteBy(p)'
    IN  Len(new) > Len(old) =>
            \A k \in DOMAIN old :
                old[k].agent = new[Len(new)].agent
                    => old[k].index < new[Len(new)].index

\* the store a finished call of p is compared on: the store as it was at its
\* first call of the data agent, or any store if it made none
StoreSeen(p) ==
    IF q[p].loc.seen = None THEN [customers |-> customers, tickets |-> tickets]
    ELSE q[p].loc.seen[1]

\* the customers tables the calls of ConcQueries leave
ConcCustomers == {SeedCustomers, [SeedCustomers EXCEPT ![2].email = "new@x.io"]}

\* RunAlone of each call of ConcQueries against each of these tables
AloneRuns ==
    {[query |-> input[1], context |-> input[2],
      store |-> [customers |-> cs, tickets |-> SeedTickets],
      runs |-> RunAlone(input[1], input[2], cs, SeedTickets)] :
        input \in ConcQueries, cs \in ConcCustomers}

\* RunAlone of the call of p against store, looked up where AloneRuns has it
RunAloneOf(p, store) ==
    LET known == {t \in AloneRuns : /\ t.query = q[p].query
                                    /\ t.context = q[p].context
                                    /\ t.store = store}
    IN  IF known # {} THEN (CHOOSE t \in known : TRUE).runs
        ELSE RunAlone(q[p].query, q[p].context, store.customers, store.tickets)

\* the call of p is over
Finished(p) == q[p].pc \in {"done", "raised"}

\* a finished call of p ended as process_query can end when it runs alone
\* against the store it saw, with the same Result and the same entries in
\* each logs list
AsAlone(p) ==
    Finished(p) =>
        \E o \in RunAloneOf(p, StoreSeen(p)) :
            /\ o.frame.pc = q[p].pc
            /\ o.frame.ret = q[p].ret
            /\ o.router = EntriesTo(WroteBy(p), "RouterAgent")
            /\ o.data = EntriesTo(WroteBy(p), "CustomerDataAgent")
            /\ o.support = EntriesTo(WroteBy(p), "SupportAgent")

\* a step leaves every entry of every logs list in place and only adds
\* entries after them
AppendOnly ==
    \A a \in Agents :
        /\ Len(logs'[a]) >= Len(logs[a])
        /\ SubSeq(logs'[a], 1, Len(logs[a])) = logs[a]

\* C20: with two process_query calls running at the same time on one
\* RouterAgent, every step only appends to the logs of the agents, every
\* entry a call logged stays in place unchanged, the entries of each call keep
\* their program order, and each call returns the Result, and logs the
\* entries, of a run alone against the store it saw.
C20_InterleavedCallsIsolated ==
    /\ [][AppendOnly /\ \A p \in Procs : KeepsOrder(p)]_vars
    /\ [](\A p \in Procs : StillLogged(p))
    /\ [](\A p \in Procs : AsAlone(p))

\* both calls returned; the lookup logged its first entry before the update
\* logged its own, and yet returned the email the update wrote
C20_Witness ==
    \E p, o \in Procs :
        /\ p # o
        /\ q[p].pc = "done" /\ q[o].pc = "done"
        /\ q[p].intent = "simple_data_query" /\ q[o].intent = "multi_intent"
        /\ Succeeded(q[p].ret[1])
        /\ q[p].ret[1].data.customer.email = "new@x.io"
        /\ Succeeded(q[o].ret[1].results[1][2])
        /\ WroteBy(p)[1].index < WroteBy(o)[1].index
        /\ WroteBy(o)[Len(WroteBy(o))].index < WroteBy(p)[Len(WroteBy(p))].index

(***************************************************************************)
(* C21: the two Trace entries of a specialist call                         *)
(***************************************************************************)
\* the specialist calls a step made for host p: the one call of the host
\* itself, or the calls a handler position added to its frame
CallsMade(p) ==
    IF served' # served /\ q'[p].pc = "answered" THEN q'[p].calls
    ELSE IF q[p].pc \in HandlerPositions /\ q'[p] # q[p]
    THEN SubSeq(q'[p].calls, Len(q[p].calls) + 1, Len(q'[p].calls))
    ELSE <<>>

\* the calls of a sequence made to one agent, in order
RECURSIVE CallsTo(_, _)
CallsTo(calls, agent) ==
    IF calls = <<>> THEN <<>>
    ELSE (IF Head(calls).agent = agent THEN <<Head(calls)>> ELSE <<>>)
         \o CallsTo(Tail(calls), agent)

\* the entries a step appended to the log of the agent, in order
AppendedSeq(agent) ==
    SubSeq(logs'[agent], Len(logs[agent]) + 1, Len(logs'[agent]))

\* C21: every call of CustomerDataAgent.process or SupportAgent.process
\* appends to that agent's log the 'Processing task' entry and then exactly
\* one outcome entry, of level INFO when the returned Result has success =
\* true and of level ERROR when it has success = false.
C21_ProcessingThenOutcome ==
    [][\A p \in hosts : \A agent \in {"CustomerDataAgent", "SupportAgent"} :
        LET made == CallsTo(CallsMade(p), agent)
            new == AppendedSeq(agent)
        IN  /\ Len(new) = 2 * Len(made)
            /\ \A i \in DOMAIN made :
                /\ new[2 * i - 1] =
                        ProcessingEntry(Get(made[i].task, "action", "None"))
                /\ "success" \in DOMAIN made[i].result
                /\ new[2 * i].level =
                        (IF made[i].result.success THEN "INFO" ELSE "ERROR")]_vars

C21_Witness ==
    \E p \in hosts :
        /\ q[p].pc = "answered"
        /\ q[p].calls[1].agent = "CustomerDataAgent"
        /\ q[p].calls[1].task = [action |-> "delete_customer", customer_id |-> Some(1)]
        /\ q[p].ret = Some([success |-> FALSE, error |-> "Unknown action: delete_customer"])
        /\ Len(logs["CustomerDataAgent"]) >= 2
        /\ logs["CustomerDataAgent"][Len(logs["CustomerDataAgent"])]
                = Error("[x] Task failed: Unknown action: delete_customer")
        /\ logs["CustomerDataAgent"][Len(logs["CustomerDataAgent"]) - 1]
                = ProcessingEntry("delete_customer")

(***************************************************************************)
(* C22: the reply template of provide_support                              *)
(***************************************************************************)
\* the category of a lower-cased query: the first that matches, in the
\* fixed order
CategoryOf(lowered) ==
    CASE Contains(lowered, "upgrade") -> "upgrade"
      [] Contains(lowered, "cancel") -> "cancel"
      [] Contains(lowered, "refund") \/ Contains(lowered, "charge") -> "refund-or-charge"
      [] Contains(lowered, "help") \/ Contains(lowered, "support") -> "help-or-support"
      [] OTHER -> "default"

\* the words by which a reply shows the template it was made from
TemplateMark(category) ==
    CASE category = "upgrade" -> "help you upgrade your account"
      [] category = "cancel" -> "considering cancellation"
      [] category = "refund-or-charge" -> "billing issues"
      [] category = "help-or-support" -> "here to help with your inquiry"
      [] OTHER -> "Thank you for reaching out"

Categories == {"upgrade", "cancel", "refund-or-charge", "help-or-support", "default"}

\* the name in the customer data passed in, 'Customer' when absent
NameIn(customer_data) ==
    IF customer_data # None
       /\ "customer" \in DOMAIN customer_data[1]
       /\ "name" \in DOMAIN customer_data[1].customer
    THEN customer_data[1].customer.name
    ELSE "Customer"

\* C22: provide_support returns success = true with a response that starts
\* with 'Hello <name>', <name> the name in the customer data passed in or
\* 'Customer', and that is made from the template of the first category, in
\* the order upgrade, cancel, refund-or-charge, help-or-support, default, the
\* lower-cased query matches, and from no other template.
C22_FirstMatchingTemplate ==
    \A p \in hosts :
        q[p].pc = "replied" =>
            LET result == q[p].ret[1]
                name == NameIn(q[p].loc.customer_data)
            IN  /\ result.success = TRUE
                /\ DOMAIN result = {"success", "response"}
                /\ HasAt(result.response, 1, "Hello " \o name)
                /\ Len(result.response) > Len("Hello " \o name)
                /\ CharAt(result.response, Len("Hello " \o name) + 1) \in {"!", ","}
                /\ \A category \in Categories :
                    Contains(result.response, TemplateMark(category))
                        <=> category = CategoryOf(Lower(q[p].query))

C22_Witness ==
    \E p \in hosts :
        /\ q[p].pc = "replied"
        /\ q[p].query = "CANCEL my plan Upgrade"
        /\ q[p].loc.customer_data = Some([success |-> TRUE, customer |-> SeedCustomers[2]])
        /\ HasAt(q[p].ret[1].response, 1,
                 "Hello " \o SeedCustomers[2].name \o "! I'd be happy to help you upgrade")

(***************************************************************************)
(* C23: the tickets of the store                                           *)
(***************************************************************************)
\* the store operation a step performed for host p
Performed(p, op) ==
    /\ served' = served + 1
    /\ q'[p].pc \in {"stored", "raised"}
    /\ q'[p].loc.op = op

\* every ticket references a customer of the store and has a priority of
\* the three, and no two tickets have the same id
TicketsSound ==
    /\ \A i \in DOMAIN tickets :
        /\ tickets[i].customer_id \in DOMAIN customers
        /\ tickets[i].priority \in {"low", "medium", "high"}
    /\ \A i, j \in DOMAIN tickets : i # j => tickets[i].id # tickets[j].id

\* a step keeps every ticket as it is, id included, and a ticket it adds is
\* open, of a customer the store held before the step
TicketsKept ==
    /\ Len(tickets') >= Len(tickets)
    /\ SubSeq(tickets', 1, Len(tickets)) = tickets
    /\ DOMAIN customers' = DOMAIN customers
    /\ \A i \in (Len(tickets) + 1)..Len(tickets') :
        /\ tickets'[i].status = "open"
        /\ tickets'[i].customer_id \in DOMAIN customers

\* create_ticket for a customer id the store does not hold inserts nothing
\* and, the database answering, returns 'Customer <id> not found'
UnknownCustomerRefused(p) ==
    (Performed(p, "create_ticket") /\ ~Exists(customers, q'[p].loc.args.customer_id)) =>
        /\ tickets' = tickets
        /\ q'[p].loc.args.fault = "none" =>
                q'[p].ret = Some([success |-> FALSE,
                                  error |-> "Customer "
                                            \o ToString(q'[p].loc.args.customer_id[1])
                                            \o " not found"])

\* C23: after any sequence of store operations every ticket references a
\* customer that existed when it was created, has priority low, medium or
\* high, was created with status 'open' and has an id of its own that never
\* changes; create_ticket for a customer id not in the store returns the
\* failure 'Customer <id> not found' and inserts no ticket.
C23_TicketIntegrity ==
    /\ []TicketsSound
    /\ [][TicketsKept /\ \A p \in hosts : UnknownCustomerRefused(p)]_vars

C23_Witness ==
    \E p \in hosts :
        /\ served = MaxOps
        /\ q[p].pc = "stored"
        /\ q[p].loc.op = "create_ticket"
        /\ q[p].loc.args.customer_id = Some(9)
        /\ q[p].ret = Some([success |-> FALSE, error |-> "Customer 9 not found"])
        /\ Cardinality({i \in DOMAIN tickets :
                /\ tickets[i].issue = "Late invoice"
                /\ tickets[i].priority = "medium"
                /\ tickets[i].customer_id = 2}) = 2

(***************************************************************************)
(* C24: what update_customer changes                                       *)
(***************************************************************************)
\* the Result a store operation returned to host p is a success
ReturnedSuccess(fr) == fr.pc = "stored" /\ Succeeded(fr.ret[1])

\* the step left the row of customer c as it was, but for the fields of
\* written, which hold the values of data
OnlyWritten(c, written, data) ==
    /\ DOMAIN customers'[c] = DOMAIN customers[c]
    /\ \A f \in DOMAIN customers[c] :
        customers'[c][f] = IF f \in written THEN data[f] ELSE customers[c][f]

OpenOf(c) ==
    {i \in DOMAIN tickets : tickets[i].customer_id = c /\ tickets[i].status = "open"}

\* C25: get_customers_with_open_tickets returns exactly the customers whose
\* status is 'active' and who have at least one ticket with status 'open',
\* each once, with open_ticket_count the number of that customer's open
\* tickets (at least 1), ordered by open_ticket_count descending, and count
\* the number of customers returned.
C25_ActiveWithOpenTickets ==
    \A p \in hosts :
        (q[p].pc = "stored" /\ q[p].loc.op = "get_customers_with_open_tickets"
            /\ Succeeded(q[p].ret[1])) =>
            LET rows == q[p].ret[1].customers
            IN  /\ {rows[i].id : i \in DOMAIN rows} =
                        {c \in DOMAIN customers :
                            customers[c].status = "active" /\ OpenOf(c) # {}}
                /\ \A i, j \in DOMAIN rows : i # j => rows[i].id # rows[j].id
                /\ \A i \in DOMAIN rows :
                    /\ rows[i].open_ticket_count = Cardinality(OpenOf(rows[i].id))
                    /\ rows[i].open_ticket_count >= 1
                    /\ rows[i].name = customers[rows[i].id].name
                    /\ rows[i].email = customers[rows[i].id].email
                    /\ rows[i].status = "active"
                /\ \A i, j \in DOMAIN rows :
                    i < j => rows[i].open_ticket_count >= rows[j].open_ticket_count
                /\ q[p].ret[1].count = Len(rows)

C25_Witness ==
    \E p \in hosts :
        /\ q[p].pc = "stored"
        /\ q[p].loc.op = "get_customers_with_open_tickets"
        /\ Succeeded(q[p].ret[1])
        /\ q[p].ret[1].count = 2
        /\ q[p].ret[1].customers[1].id = 1
        /\ q[p].ret[1].customers[1].open_ticket_count = 2
        /\ q[p].ret[1].customers[2].id = 5
        /\ DOMAIN customers = {1, 2, 4, 5}
        /\ customers[2].status = "active" /\ OpenOf(2) = {}
        /\ \E i \in DOMAIN tickets : tickets[i].customer_id = 2
        /\ customers[4].status = "disabled" /\ OpenOf(4) # {}

C26_EscalationIsHigh ==
    \A p \in hosts :
        q[p].pc = "escalated" =>
            /\ q[p].ret[1].success = TRUE
            /\ "urgency" \in DOMAIN q[p].ret[1]
            /\ q[p].ret[1].urgency = "high"
            /\ q[p].ret[1].priority = "high"

C26_Witness ==
    \E p \in hosts :
        /\ q[p].pc = "escalated"
        /\ q[p].query = "emergency help me"
        /\ q[p].ret[1].reason = "Contains high-urgency keyword: emergency"

(***************************************************************************)
(* C27: what process_query changes in the store                            *)
(***************************************************************************)
\* the customer id the call of host p resolves, None when there is none or
\* the resolution raises
ResolvedId(fr) ==
    LET extracted == extract_customer_id(fr.query, fr.context)
    IN  IF extracted.raised THEN None ELSE extracted.value

IdRequired(intent) ==
    [success |-> FALSE,
     error |-> CASE intent = "simple_data_query" ->
                        "Customer ID required but not found in query or context"
                 [] intent = "coordinated_support" ->
                        "Customer ID required for support queries"
                 [] OTHER -> "Customer ID required for multi-intent queries"]

\* C28: a resolved customer id of 0, from the context or from the text, is
\* treated as a missing id: SimpleDataQuery, CoordinatedSupport and
\* MultiIntent return the 'customer id required' failure of the pattern
\* without a call of the data service, and Escalation makes no get_customer
\* call and returns without customer data.
C28_ZeroIdIsMissing ==
    \A p \in hosts :
        (q[p].pc \in {"done", "raised"} /\ ResolvedId(q[p]) = Some(0)) =>
            /\ q[p].intent \in {"simple_data_query", "coordinated_support",
                                "multi_intent"} =>
                    /\ q[p].pc = "done"
                    /\ q[p].ret = Some(IdRequired(q[p].intent))
                    /\ q[p].calls = <<>>
            /\ q[p].intent = "escalation" =>
                    /\ q[p].pc = "done"
                    /\ \A i \in DOMAIN q[p].calls :
                        q[p].calls[i].agent # "CustomerDataAgent"
                    /\ Len(q[p].calls) = 1
                    /\ q[p].ret[1].customer_data = None

C28_Witness ==
    \E p \in hosts :
        /\ q[p].pc = "done"
        /\ q[p].query = "customer 0 needs help"
        /\ q[p].context = None
        /\ q[p].intent = "coordinated_support"
        /\ q[p].ret = Some([success |-> FALSE,
                            error |-> "Customer ID required for support queries"])
        /\ q[p].calls = <<>>

(***************************************************************************)
(* C29: the sub-tasks of the MultiIntent pattern                           *)
(***************************************************************************)
\* the sub-tasks whose trigger the query fully matches, in the order the
\* handler takes them, each with the action of its data-service call
MatchedSubTasks(query) ==
    LET lowered == Lower(query)
    IN  (IF /\ Contains(lowered, "update")
            /\ Contains(lowered, "email")
            /\ EmailSearch(query) # None
         THEN <<[name |-> "update_email", action |-> "update_customer"]>>
         ELSE <<>>)
        \o (IF /\ Contains(lowered, "show")
               /\ Contains(lowered, "history") \/ Contains(lowered, "tickets")
            THEN <<[name |-> "get_history", action |-> "get_customer_history"]>>
            ELSE <<>>)

\* C29: in the MultiIntent pattern with a resolvable customer id the call
\* returns success = true, a sub-task whose trigger does not fully match is
\* not attempted and has no entry in 'results' (none at all when neither
\* matches), and 'results' has one entry per data-service call made, in the
\* order of the calls.
C29_OnlyMatchedSubTasks ==
    \A p \in hosts :
        (q[p].pc \in {"done", "raised"} /\ q[p].intent = "multi_intent"
            /\ Truthy(ResolvedId(q[p]))) =>
            LET matched == MatchedSubTasks(q[p].query)
            IN  /\ q[p].pc = "done"
                /\ q[p].ret[1].success = TRUE
                /\ Len(q[p].ret[1].results) = Len(q[p].calls)
                /\ Len(q[p].calls) = Len(matched)
                /\ \A i \in DOMAIN matched :
                    /\ q[p].calls[i].agent = "CustomerDataAgent"
                    /\ q[p].calls[i].task.action = matched[i].action
                    /\ q[p].ret[1].results[i] = <<matched[i].name, q[p].calls[i].result>>

C29_Witness ==
    \E p \in hosts :
        /\ q[p].pc = "done"
        /\ q[p].query = "get the list"
        /\ q[p].context = Some([customer_id |-> 2])
        /\ q[p].intent = "multi_intent"
        /\ q[p].calls = <<>>
        /\ q[p].ret = Some([success |-> TRUE,
                            response |-> "Multi-Action Request Processed:\n\n",
                            results |-> <<>>])

====
